---- MODULE Spec2Model ----
(***************************************************************************)
(* Model of the multi-session WhatsApp gateway (the complete variant of    *)
(* the server, src/unnamed/part_002): the per-session connection           *)
(* lifecycle (connectSession, the connection.update handler, the session   *)
(* routes) and the inbound message handler (messages.upsert).              *)
(*                                                                         *)
(* A transport socket created by makeWASocket is a slot of the pool        *)
(* SockIds.  The transport library is a black box: it may emit a pairing   *)
(* code, "open" and "close" on a socket it has created.                    *)
(***************************************************************************)
EXTENDS Integers, Sequences, FiniteSets, TLC

\* ------------------------------------------------------------------ bounds
MaxSocks == 3
MaxQR == 2
MaxMsgs == 2
MaxPolls == 2
MaxDigits == 17
MaxLen == 3

SessionIds == {"s1"}
\* a second session, registered only where two sessions are compared
OtherSessions == {"s2"}
AllSessions == SessionIds \cup OtherSessions
ApiKeys == {"k1"}
SockIds == 1..MaxSocks

MsgIds == 1..MaxMsgs
RuleFiles == {"autoReplies", "regexTriggers", "regexTriggersPro"}

NoKey == "none"
NoSock == 0

VARIABLES
    sessions,      \* sessions[s]: the API key registered for s, or NoKey
    sockets,       \* sockets[s]: the registered handle of s, or NoSock
    sock,          \* sock[k]: the socket object held in slot k
    timers,        \* slots whose close handler has a reconnect timer pending
    connecting,    \* connecting[s][c]: connectSession calls for s that are
                   \* awaiting before makeWASocket, having read credentials c
    startup,       \* sessions autoReconnectSessions has still to start
    creds,         \* creds[s]: messaging credentials persisted under auth/<s>
    deleted,       \* deleted[s]: DELETE completed for s and s was not created again
    authDir,       \* authDir[s]: the directory auth/<s> exists
    ruleFiles,     \* ruleFiles[s][f]: the rule file f persisted under auth/<s>
    autoReplies,   \* autoReplies[s]: in-memory auto-reply rules (<<>> when unset)
    regexTriggers, \* regexTriggers[s]: in-memory generic regex triggers
    regexTriggersPro, \* regexTriggersPro[s]: in-memory number-scoped triggers
    arrived,       \* number of inbound messages delivered so far
    tasks,         \* tasks[m]: the messages.upsert handler run for message m
    errs,          \* the error answers given so far ("401", "400", ...)
    sendReq,       \* sendReq[s]: the sendText request in progress for s
    qrReq,         \* qrReq[s]: the qr request in progress for s
    loading,       \* loading[k]: the rule file the open handler of slot k is
                   \* reading, with the session it reads it for
    arg,           \* the string a string function is applied to
    out            \* the function called and what it returned

life == <<sessions, sockets, sock, timers, connecting, startup, creds, deleted>>
store == <<authDir, ruleFiles>>
rules == <<autoReplies, regexTriggers, regexTriggersPro>>
msgs == <<arrived, tasks>>
calc == <<arg, out>>
reqs == <<errs, sendReq, qrReq, loading, calc>>
vars == <<life, store, rules, msgs, reqs>>

\* ------------------------------------------------------------------ strings
\* A string is a sequence of one-character strings.
Lower == <<"a","b","c","d","e","f","g","h","i","j","k","l","m",
           "n","o","p","q","r","s","t","u","v","w","x","y","z">>
Upper == <<"A","B","C","D","E","F","G","H","I","J","K","L","M",
           "N","O","P","Q","R","S","T","U","V","W","X","Y","Z">>
Digits == {"0","1","2","3","4","5","6","7","8","9"}
Letters == {Lower[i] : i \in DOMAIN Lower} \cup {Upper[i] : i \in DOMAIN Upper}
Whitespace == {" "}

lowerOf(c) ==
    IF \E i \in DOMAIN Upper : Upper[i] = c
    THEN Lower[CHOOSE i \in DOMAIN Upper : Upper[i] = c]
    ELSE c

toLowerCase(str) == [i \in 1..Len(str) |-> lowerOf(str[i])]

IsAlnum(c) == c \in Letters \cup Digits
IsDigit(c) == c \in Digits
IsSpace(c) == c \in Whitespace

\* str.replace(/[^a-z0-9]/gi, '')
stripNonAlnum(str) == SelectSeq(str, IsAlnum)

RECURSIVE trimStart(_)
trimStart(str) ==
    IF str # <<>> /\ IsSpace(Head(str)) THEN trimStart(Tail(str)) ELSE str

RECURSIVE trimEnd(_)
trimEnd(str) ==
    IF str # <<>> /\ IsSpace(str[Len(str)])
    THEN trimEnd(SubSeq(str, 1, Len(str) - 1)) ELSE str

trim(str) == trimEnd(trimStart(str))

\* str.split(',')
RECURSIVE splitComma(_)
splitComma(str) ==
    IF \E i \in 1..Len(str) : str[i] = ","
    THEN LET i == CHOOSE i \in 1..Len(str) :
                    str[i] = "," /\ \A j \in 1..(i - 1) : str[j] # ","
         IN <<SubSeq(str, 1, i - 1)>> \o splitComma(SubSeq(str, i + 1, Len(str)))
    ELSE <<str>>

\* formatNumber: the digits of num as <digits>@s.whatsapp.net, or null
NullJid == [user |-> <<>>, server |-> "null"]
Jid(digits) == [user |-> digits, server |-> "s.whatsapp.net"]

\* the address as the string the template literal builds
jidText(jid) ==
    jid.user \o <<"@","s",".","w","h","a","t","s","a","p","p",".","n","e","t">>

\* faulty variant, for comparison: no upper limit on the number of digits
formatNumberLoose(num) ==
    LET clean == SelectSeq(num, IsDigit) IN
    IF Len(clean) >= 10 THEN Jid(clean) ELSE NullJid

formatNumber(num) ==
    LET clean == SelectSeq(num, IsDigit) IN
    IF Len(clean) >= 10 /\ Len(clean) <= 15 THEN Jid(clean) ELSE NullJid

\* trigger.target_number.split(',').map(formatNumber(trim)).filter(Boolean)
allowedNumbers(target_number) ==
    LET parts == splitComma(target_number)
        jids == [i \in 1..Len(parts) |-> formatNumber(trim(parts[i]))]
    IN {jids[i] : i \in {j \in 1..Len(parts) : jids[j] # NullJid}}

\* ------------------------------------------------------------- RegExp(p, 'i')
\* The patterns of the model are literal characters, matched without regard to
\* case anywhere in the text, and "(" alone, an unterminated group, which
\* new RegExp refuses.
Compiles(regex) == \A i \in 1..Len(regex) : regex[i] # "("

MatchAt(regex, text, i) ==
    /\ i + Len(regex) - 1 <= Len(text)
    /\ \A j \in 1..Len(regex) : lowerOf(text[i + j - 1]) = lowerOf(regex[j])

regexTest(regex, text) == \E i \in 1..Len(text) : MatchAt(regex, text, i)

\* text.match(regex)[0]
firstMatch(regex, text) ==
    LET i == CHOOSE i \in 1..Len(text) :
                /\ MatchAt(regex, text, i)
                /\ \A j \in 1..(i - 1) : ~MatchAt(regex, text, j)
    IN SubSeq(text, i, i + Len(regex) - 1)

\* ------------------------------------------------------------ socket objects
\* conn is the transport's own state: "live" (created, not ended),
\* "ending" (logout requested), "closed" (ended, close emitted).
FreshSock(s, c) ==
    [sessionId |-> s, conn |-> "live", isConnected |-> FALSE, lastQR |-> 0,
     authed |-> c]

BlankSock ==
    [sessionId |-> CHOOSE s \in SessionIds : TRUE, conn |-> "closed",
     isConnected |-> FALSE, lastQR |-> 0, authed |-> FALSE]

Registered(k) == \E s \in AllSessions : sockets[s] = k

\* no request of the kind is in progress
IdleReq == [pc |-> "idle"]

\* no string function was called
NoOut == [fn |-> "none"]

\* no open handler of the slot is at a read
NotLoading == [file |-> "none"]

\* a handler run that has not returned yet
Running(m) == tasks[m].pc \notin {"idle", "done", "failed"}

\* a slot whose socket is closed for good: no timer and no registry entry
\* refers to it (a handler run still holding it holds a dead socket)
FreeSlot(k) ==
    /\ sock[k].conn = "closed"
    /\ k \notin timers
    /\ ~Registered(k)

\* the socket object a handler run holds; a run whose slot was given to a new
\* socket holds the dead one it had
SockOf(k) == IF k = NoSock THEN BlankSock ELSE sock[k]

\* handler runs that held the dead socket of slot k keep a dead socket
Rehome(k) ==
    [m \in MsgIds |->
        IF Running(m) /\ tasks[m].sk = k
        THEN [tasks[m] EXCEPT !.sk = NoSock] ELSE tasks[m]]

ConnectingCount(s) == connecting[s][TRUE] + connecting[s][FALSE]

RECURSIVE SumOver(_, _)
SumOver(f, S) ==
    IF S = {} THEN 0
    ELSE LET x == CHOOSE y \in S : TRUE IN f[x] + SumOver(f, S \ {x})

\* Every start in progress ends in one socket, and every socket that closes
\* starts again through its timer: the starts requested from outside are
\* bounded so that makeWASocket always finds a slot.
Chains ==
    Cardinality({k \in SockIds : sock[k].conn # "closed"})
    + Cardinality(timers) + Cardinality(startup)
    + SumOver([s \in AllSessions |-> ConnectingCount(s)], AllSessions)
    + Cardinality({s \in AllSessions : qrReq[s].pc = "connecting"})

CanStart == Chains < MaxSocks - Cardinality(SessionIds)

\* ------------------------------------------------------------- persistence
NoFile == [exists |-> FALSE, data |-> <<>>]
FileOf(data) == [exists |-> TRUE, data |-> data]
NoRuleFiles == [f \in RuleFiles |-> NoFile]

\* faulty variant, for comparison: the credentials survive the removal
RemoveAuthPathKeepCreds(s) ==
    /\ authDir' = [authDir EXCEPT ![s] = FALSE]
    /\ creds' = creds
    /\ ruleFiles' = [ruleFiles EXCEPT ![s] = NoRuleFiles]

\* fs.remove(auth/<s>): the credentials and the rule files go with the directory
RemoveAuthPath(s) ==
    /\ authDir' = [authDir EXCEPT ![s] = FALSE]
    /\ creds' = [creds EXCEPT ![s] = FALSE]
    /\ ruleFiles' = [ruleFiles EXCEPT ![s] = NoRuleFiles]

\* ------------------------------------------------------------------- routes
verifyApiKey(s, key) == key # NoKey /\ sessions[s] = key

\* the keys a caller may present: a registered one, one that no session has,
\* none at all
CallerKeys == ApiKeys \cup {"k0", NoKey}

\* the middleware answers 401 and the route handler is not called
Unauthorized(s, key) ==
    /\ ~verifyApiKey(s, key)
    /\ errs' = errs \cup {"401"}
    /\ UNCHANGED <<life, store, rules, msgs, sendReq, qrReq, loading, calc>>

\* connectSession up to its first awaits: useMultiFileAuthState creates
\* auth/<s> and reads the persisted credentials
connectSessionBegin(s) ==
    /\ connecting' = [connecting EXCEPT ![s][creds[s]] = @ + 1]
    /\ authDir' = [authDir EXCEPT ![s] = TRUE]

\* faulty variant, for comparison: the create route also starts the session
CreateSessionStarts(s, key) ==
    /\ key \in ApiKeys
    /\ sessions' = [sessions EXCEPT ![s] = key]
    /\ deleted' = [deleted EXCEPT ![s] = FALSE]
    /\ CanStart
    /\ connecting' = [connecting EXCEPT ![s][creds[s]] = @ + 1]
    /\ UNCHANGED <<sockets, sock, timers, startup, creds>>
    /\ UNCHANGED <<store, rules, msgs>>
    /\ UNCHANGED reqs

\* POST /session/:sessionId: 400 without apiKey, else sessions[sessionId] = apiKey
CreateSession(s, key) ==
    /\ key # NoKey
    /\ sessions' = [sessions EXCEPT ![s] = key]
    /\ deleted' = [deleted EXCEPT ![s] = FALSE]
    /\ UNCHANGED <<sockets, sock, timers, connecting, startup, creds>>
    /\ UNCHANGED <<store, rules, msgs>>
    /\ UNCHANGED reqs

\* POST /reconnect: 404 without a handle, nothing when connected
Reconnect(s, key) ==
    /\ verifyApiKey(s, key)
    /\ sockets[s] # NoSock
    /\ ~sock[sockets[s]].isConnected
    /\ CanStart
    /\ connectSessionBegin(s)
    /\ UNCHANGED <<sessions, sockets, sock, timers, startup, creds, deleted>>
    /\ UNCHANGED <<ruleFiles, rules, msgs>>
    /\ UNCHANGED reqs

\* autoReconnectSessions: one start per session read from sessions.json
AutoReconnect(s) ==
    /\ s \in startup
    /\ startup' = startup \ {s}
    /\ connectSessionBegin(s)
    /\ UNCHANGED <<sessions, sockets, sock, timers, creds, deleted>>
    /\ UNCHANGED <<ruleFiles, rules, msgs>>
    /\ UNCHANGED reqs

\* the reconnect timer set by a close handler fires
TimerFire(k) ==
    /\ k \in timers
    /\ timers' = timers \ {k}
    /\ connectSessionBegin(sock[k].sessionId)
    /\ sock' = IF Registered(k) THEN sock ELSE [sock EXCEPT ![k] = BlankSock]
    /\ UNCHANGED <<sessions, sockets, startup, creds, deleted>>
    /\ UNCHANGED <<ruleFiles, rules, msgs>>
    /\ UNCHANGED reqs

\* makeWASocket in the lowest free slot k, then sockets[s] = sock whatever
\* handle was registered before
Registering(s, c, k) ==
    /\ FreeSlot(k)
    /\ \A j \in SockIds : FreeSlot(j) => k <= j
    /\ sock' = [j \in SockIds |->
                  IF j = k THEN FreshSock(s, c)
                  ELSE IF j = sockets[s] /\ sock[j].conn = "closed"
                          /\ j \notin timers
                       THEN BlankSock ELSE sock[j]]
    /\ sockets' = [sockets EXCEPT ![s] = k]
    /\ tasks' = Rehome(k)

\* connectSession after its awaits: makeWASocket, then the handle is registered
connectSessionEnd(s, c) ==
    /\ connecting[s][c] > 0
    /\ \E k \in SockIds : Registering(s, c, k)
    /\ connecting' = [connecting EXCEPT ![s][c] = @ - 1]
    /\ UNCHANGED <<sessions, timers, startup, creds, deleted>>
    /\ UNCHANGED <<store, rules, arrived>>
    /\ UNCHANGED reqs

\* ---------------------------------------------------- connection.update events
\* the transport issues a pairing code on a socket that has no credentials
OnQr(k) ==
    /\ sock[k].conn = "live"
    /\ ~sock[k].authed
    /\ ~sock[k].isConnected
    /\ sock[k].lastQR < MaxQR
    /\ sock' = [sock EXCEPT ![k].lastQR = @ + 1]
    /\ UNCHANGED <<sessions, sockets, timers, connecting, startup, creds, deleted>>
    /\ UNCHANGED <<store, rules, msgs>>
    /\ UNCHANGED reqs

\* the rule collection loaded on open: the file's content, [] without a file
LoadRules(s, f) ==
    IF ruleFiles[s][f].exists THEN ruleFiles[s][f].data ELSE <<>>

\* connection === 'open'; the creds.update listener has saved the credentials
\* of a socket that was paired, when auth/<s> is still there
OnOpen(k) ==
    LET s == sock[k].sessionId IN
    /\ sock[k].conn = "live"
    /\ ~sock[k].isConnected
    /\ sock[k].authed \/ sock[k].lastQR > 0
    /\ sock' = [sock EXCEPT ![k].isConnected = TRUE, ![k].lastQR = 0]
    /\ creds' = [creds EXCEPT ![s] = authDir[s] \/ @]
    /\ autoReplies' = [autoReplies EXCEPT ![s] = LoadRules(s, "autoReplies")]
    /\ regexTriggers' = [regexTriggers EXCEPT ![s] = LoadRules(s, "regexTriggers")]
    /\ regexTriggersPro' =
          [regexTriggersPro EXCEPT ![s] = LoadRules(s, "regexTriggersPro")]
    /\ UNCHANGED <<sessions, sockets, timers, connecting, startup, deleted>>
    /\ UNCHANGED <<store, msgs>>
    /\ UNCHANGED reqs

\* ---- the open branch with its awaits: the three files are read in this
\* order, and the handler is suspended at each fs.readJson
RuleFileOrder == <<"autoReplies", "regexTriggers", "regexTriggersPro">>

FileIndex(f) == CHOOSE i \in DOMAIN RuleFileOrder : RuleFileOrder[i] = f

\* the three in-memory collections of s by file name
Mem(s) ==
    [f \in RuleFiles |->
        IF f = "autoReplies" THEN autoReplies[s]
        ELSE IF f = "regexTriggers" THEN regexTriggers[s]
        ELSE regexTriggersPro[s]]

SetMem(s, mem) ==
    /\ autoReplies' = [autoReplies EXCEPT ![s] = mem["autoReplies"]]
    /\ regexTriggers' = [regexTriggers EXCEPT ![s] = mem["regexTriggers"]]
    /\ regexTriggersPro' = [regexTriggersPro EXCEPT ![s] = mem["regexTriggersPro"]]

\* from file i on: a file that does not exist gives [] at once; the first one
\* that exists is read, which suspends the handler (at: its index, 0 when the
\* branch is over)
RECURSIVE LoadFrom(_, _, _)
LoadFrom(s, i, mem) ==
    IF i > Len(RuleFileOrder) THEN [mem |-> mem, at |-> 0]
    ELSE IF ruleFiles[s][RuleFileOrder[i]].exists THEN [mem |-> mem, at |-> i]
    ELSE LoadFrom(s, i + 1, [mem EXCEPT ![RuleFileOrder[i]] = <<>>])

Reading(s, at) ==
    IF at = 0 THEN NotLoading
    ELSE [file |-> RuleFileOrder[at], sessionId |-> s]

\* connection === 'open' up to the first read
OpenBegin(k) ==
    LET s == sock[k].sessionId
        r == LoadFrom(s, 1, Mem(s))
    IN /\ sock[k].conn = "live"
       /\ ~sock[k].isConnected
       /\ sock[k].authed \/ sock[k].lastQR > 0
       /\ loading[k] = NotLoading
       /\ sock' = [sock EXCEPT ![k].isConnected = TRUE, ![k].lastQR = 0]
       /\ creds' = [creds EXCEPT ![s] = authDir[s] \/ @]
       /\ SetMem(s, r.mem)
       /\ loading' = [loading EXCEPT ![k] = Reading(s, r.at)]
       /\ UNCHANGED <<sessions, sockets, timers, connecting, startup, deleted>>
       /\ UNCHANGED <<store, msgs, errs, sendReq, qrReq, calc>>

\* fs.readJson returns the content the file has now, and the branch goes on to
\* the next read; or it throws (the file is gone or cannot be parsed) and the
\* catch block logs the error: the collections not reached stay as they were
OpenRead(k, ok) ==
    LET s == loading[k].sessionId
        f == loading[k].file
        r == LoadFrom(s, FileIndex(f) + 1,
                      [Mem(s) EXCEPT ![f] = ruleFiles[s][f].data])
    IN /\ loading[k] # NotLoading
       /\ ok => ruleFiles[s][f].exists
       /\ IF ok
          THEN SetMem(s, r.mem) /\ loading' = [loading EXCEPT ![k] = Reading(s, r.at)]
          ELSE UNCHANGED rules /\ loading' = [loading EXCEPT ![k] = NotLoading]
       /\ UNCHANGED <<life, store, msgs, errs, sendReq, qrReq, calc>>

\* the requests that hold the socket of slot k hold a closed socket from now
\* on, with the pairing code it had
CloseReqs(k) ==
    /\ sendReq' = [s \in AllSessions |->
          IF sendReq[s].pc # "idle" /\ sendReq[s].sk = k
          THEN [sendReq[s] EXCEPT !.sk = NoSock] ELSE sendReq[s]]
    /\ qrReq' = [s \in AllSessions |->
          IF qrReq[s].pc = "polling" /\ qrReq[s].sk = k
          THEN [qrReq[s] EXCEPT !.sk = NoSock, !.qr = sock[k].lastQR]
          ELSE qrReq[s]]
    /\ errs' = errs
    /\ UNCHANGED <<loading, calc>>

\* faulty variant, for comparison: only the logged-out branch sets a timer
OnCloseGiveUp(k, loggedOut) ==
    /\ sock[k].conn \in {"live", "ending"}
    /\ sock' = [sock EXCEPT ![k].isConnected = FALSE, ![k].conn = "closed",
                            ![k].authed = FALSE]
    /\ IF loggedOut
       THEN RemoveAuthPath(sock[k].sessionId)
       ELSE UNCHANGED <<creds, store>>
    /\ timers' = IF loggedOut THEN timers \cup {k} ELSE timers
    /\ UNCHANGED <<sessions, sockets, connecting, startup, deleted>>
    /\ UNCHANGED <<rules, msgs>>
    /\ CloseReqs(k)

\* connection === 'close': both branches set a timer that calls connectSession
OnClose(k, loggedOut) ==
    /\ sock[k].conn \in {"live", "ending"}
    /\ sock' = [sock EXCEPT ![k].isConnected = FALSE, ![k].conn = "closed",
                            ![k].authed = FALSE]
    /\ IF loggedOut
       THEN RemoveAuthPath(sock[k].sessionId)
       ELSE UNCHANGED <<creds, store>>
    /\ timers' = timers \cup {k}
    /\ UNCHANGED <<sessions, sockets, connecting, startup, deleted>>
    /\ UNCHANGED <<rules, msgs>>
    /\ CloseReqs(k)

\* sock.logout(): the transport is asked to end; a socket that has closed and
\* has no timer left is dead once the registry drops it
AfterLogout(k) ==
    IF sock[k].conn = "live" THEN [sock[k] EXCEPT !.conn = "ending"]
    ELSE IF sock[k].conn = "closed" /\ k \notin timers THEN BlankSock
    ELSE sock[k]

\* faulty variant, for comparison: the route without the middleware
DeleteSessionNoAuth(s, key) ==
    /\ IF sockets[s] # NoSock
       THEN /\ sock' = [sock EXCEPT ![sockets[s]] = AfterLogout(sockets[s])]
            /\ sockets' = [sockets EXCEPT ![s] = NoSock]
       ELSE UNCHANGED <<sock, sockets>>
    /\ sessions' = [sessions EXCEPT ![s] = NoKey]
    /\ RemoveAuthPath(s)
    /\ deleted' = [deleted EXCEPT ![s] = TRUE]
    /\ UNCHANGED <<timers, connecting, startup>>
    /\ UNCHANGED <<rules, msgs>>
    /\ UNCHANGED reqs

\* DELETE /session/:sessionId
DeleteSession(s, key) ==
    /\ verifyApiKey(s, key)
    /\ IF sockets[s] # NoSock
       THEN /\ sock' = [sock EXCEPT ![sockets[s]] = AfterLogout(sockets[s])]
            /\ sockets' = [sockets EXCEPT ![s] = NoSock]
       ELSE UNCHANGED <<sock, sockets>>
    /\ sessions' = [sessions EXCEPT ![s] = NoKey]
    /\ RemoveAuthPath(s)
    /\ deleted' = [deleted EXCEPT ![s] = TRUE]
    /\ UNCHANGED <<timers, connecting, startup>>
    /\ UNCHANGED <<rules, msgs>>
    /\ UNCHANGED reqs

\* DELETE /session/:sessionId when sock.logout() rejects, as it does on a
\* handle whose connection is not open: the route has no try/catch, so the
\* rejection ends the handler before anything is removed
DeleteSessionLogoutFails(s, key) ==
    /\ verifyApiKey(s, key)
    /\ sockets[s] # NoSock
    /\ ~sock[sockets[s]].isConnected
    /\ errs' = errs \cup {"unhandled"}
    /\ UNCHANGED <<life, store, rules, msgs, sendReq, qrReq, loading, calc>>

\* ------------------------------------------------------------- the qr route
\* the handle a qr request polls: the socket object it read from the registry
\* or got from connectSession, not the registry entry
Polling(k) ==
    IF sock[k].conn = "closed"
    THEN [pc |-> "polling", sk |-> NoSock, qr |-> sock[k].lastQR, i |-> 0]
    ELSE [pc |-> "polling", sk |-> k, qr |-> 0, i |-> 0]

\* GET /qr: answered at once when the registered handle is connected; without
\* a handle connectSession is called and awaited; then the handle is polled
QrRequest(s, key) ==
    /\ verifyApiKey(s, key)
    /\ qrReq[s].pc = "idle"
    /\ IF sockets[s] # NoSock /\ sock[sockets[s]].isConnected
       THEN UNCHANGED <<qrReq, authDir>>
       ELSE IF sockets[s] = NoSock
       THEN /\ CanStart
            /\ qrReq' = [qrReq EXCEPT ![s] = [pc |-> "connecting", c |-> creds[s]]]
            /\ authDir' = [authDir EXCEPT ![s] = TRUE]
       ELSE /\ qrReq' = [qrReq EXCEPT ![s] = Polling(sockets[s])]
            /\ UNCHANGED authDir
    /\ UNCHANGED <<life, ruleFiles, rules, msgs, errs, sendReq, loading, calc>>

\* the connectSession call of a qr request returns its socket
QrConnected(s) ==
    /\ qrReq[s].pc = "connecting"
    /\ \E k \in SockIds :
          /\ Registering(s, qrReq[s].c, k)
          /\ qrReq' = [qrReq EXCEPT ![s] =
                          [pc |-> "polling", sk |-> k, qr |-> 0, i |-> 0]]
    /\ UNCHANGED <<sessions, timers, connecting, startup, creds, deleted>>
    /\ UNCHANGED <<store, rules, arrived, errs, sendReq, loading, calc>>

\* what a polling request sees on its handle
PolledQR(r) == IF r.sk = NoSock THEN r.qr ELSE sock[r.sk].lastQR
PolledConnected(r) == r.sk # NoSock /\ sock[r.sk].isConnected

\* one turn of the loop: the pairing code or connected: true is answered, or
\* the request sleeps a second
QrPoll(s) ==
    /\ qrReq[s].pc = "polling"
    /\ qrReq[s].i < MaxPolls
    /\ qrReq' = [qrReq EXCEPT ![s] =
          IF PolledQR(@) > 0 \/ PolledConnected(@) THEN IdleReq
          ELSE [@ EXCEPT !.i = @ + 1]]
    /\ UNCHANGED <<life, store, rules, msgs, errs, sendReq, loading, calc>>

\* the loop is over: 408
QrTimeout(s) ==
    /\ qrReq[s].pc = "polling"
    /\ qrReq[s].i = MaxPolls
    /\ qrReq' = [qrReq EXCEPT ![s] = IdleReq]
    /\ errs' = errs \cup {"408"}
    /\ UNCHANGED <<life, store, rules, msgs, sendReq, loading, calc>>

\* ------------------------------------------------------- the sendText route
\* POST /sendText: 409 without a connected handle, 400 for a number that
\* formatNumber refuses, else the 1.5 s delay begins
SendText(s, key, to) ==
    /\ verifyApiKey(s, key)
    /\ sendReq[s].pc = "idle"
    /\ IF sockets[s] = NoSock \/ ~sock[sockets[s]].isConnected
       THEN errs' = errs \cup {"409"} /\ UNCHANGED sendReq
       ELSE IF formatNumber(to) = NullJid
       THEN errs' = errs \cup {"400"} /\ UNCHANGED sendReq
       ELSE /\ sendReq' = [sendReq EXCEPT ![s] =
                  [pc |-> "delay", sk |-> sockets[s], jid |-> formatNumber(to)]]
            /\ UNCHANGED errs
    /\ UNCHANGED <<life, store, rules, msgs, qrReq, loading, calc>>

\* the delay is over: sock.sendMessage(jid, { text }) on the handle read before
SendTextDelayElapsed(s) ==
    /\ sendReq[s].pc = "delay"
    /\ sendReq' = [sendReq EXCEPT ![s].pc = "sending"]
    /\ UNCHANGED <<life, store, rules, msgs, errs, qrReq, loading, calc>>

\* sock.sendMessage returns (on an open socket only) or throws: 200 or 500
SendTextReturns(s, ok) ==
    /\ sendReq[s].pc = "sending"
    /\ ok => sendReq[s].sk # NoSock
    /\ sendReq' = [sendReq EXCEPT ![s] = IdleReq]
    /\ errs' = IF ok THEN errs ELSE errs \cup {"500"}
    /\ UNCHANGED <<life, store, rules, msgs, qrReq, loading, calc>>

\* ------------------------------------------------------------ rule routes
\* a field the request body does not have
Absent == <<"undefined">>

\* POST /autoReplies: the keywords are lower-cased, the memory is set, and the
\* file is written only with saveToAuth (the write fails without auth/<s>);
\* r.keyword.toLowerCase() throws for an entry without keyword, before
\* anything is set, and nothing catches it
formatReplies(replies) ==
    [i \in 1..Len(replies) |->
        [keyword |-> toLowerCase(replies[i].keyword), reply |-> replies[i].reply]]

SetAutoReplies(s, key, replies, saveToAuth) ==
    /\ verifyApiKey(s, key)
    /\ IF \E i \in 1..Len(replies) : replies[i].keyword = Absent
       THEN /\ errs' = errs \cup {"unhandled"}
            /\ UNCHANGED <<autoReplies, ruleFiles>>
       ELSE /\ autoReplies' = [autoReplies EXCEPT ![s] = formatReplies(replies)]
            /\ ruleFiles' =
                  IF saveToAuth /\ authDir[s]
                  THEN [ruleFiles EXCEPT ![s]["autoReplies"] =
                           FileOf(formatReplies(replies))]
                  ELSE ruleFiles
            /\ errs' = errs
    /\ UNCHANGED <<life, authDir, regexTriggers, regexTriggersPro, msgs>>
    /\ UNCHANGED <<sendReq, qrReq, loading, calc>>

\* faulty variant, for comparison: the entries are not validated
validTriggerLax(tr) == TRUE

\* POST /regexTriggers: every entry needs name, regex and callback_url, or the
\* request is answered 400; the file is written first, then the memory is set
validTrigger(tr) == tr.name # "" /\ tr.regex # <<>> /\ tr.callback_url # ""

SetRegexTriggers(s, key, triggers) ==
    /\ verifyApiKey(s, key)
    /\ IF \A i \in 1..Len(triggers) : validTrigger(triggers[i])
       THEN /\ authDir[s]
            /\ ruleFiles' = [ruleFiles EXCEPT ![s]["regexTriggers"] = FileOf(triggers)]
            /\ regexTriggers' = [regexTriggers EXCEPT ![s] = triggers]
            /\ errs' = errs
       ELSE /\ errs' = errs \cup {"400"}
            /\ UNCHANGED <<ruleFiles, regexTriggers>>
    /\ UNCHANGED <<life, authDir, autoReplies, regexTriggersPro, msgs>>
    /\ UNCHANGED <<sendReq, qrReq, loading, calc>>

\* POST /regexTriggersPro: as above, and every entry needs target_number
validTriggerPro(tr) == validTrigger(tr) /\ tr.target_number # <<>>

SetRegexTriggersPro(s, key, triggers) ==
    /\ verifyApiKey(s, key)
    /\ IF \A i \in 1..Len(triggers) : validTriggerPro(triggers[i])
       THEN /\ authDir[s]
            /\ ruleFiles' = [ruleFiles EXCEPT ![s]["regexTriggersPro"] = FileOf(triggers)]
            /\ regexTriggersPro' = [regexTriggersPro EXCEPT ![s] = triggers]
            /\ errs' = errs
       ELSE /\ errs' = errs \cup {"400"}
            /\ UNCHANGED <<ruleFiles, regexTriggersPro>>
    /\ UNCHANGED <<life, authDir, autoReplies, regexTriggers, msgs>>
    /\ UNCHANGED <<sendReq, qrReq, loading, calc>>

\* GET /autoReplies, /regexTriggers, /regexTriggersPro: the file is read; 404
\* without a file, for the pro collection an empty list instead
getRules(s, f) ==
    IF ruleFiles[s][f].exists THEN [code |-> 200, data |-> ruleFiles[s][f].data]
    ELSE IF f = "regexTriggersPro" THEN [code |-> 200, data |-> <<>>]
    ELSE [code |-> 404, data |-> <<>>]

\* --------------------------------------------------- messages.upsert handler
FallbackPro == "X Error processing your request."
FallbackRegex == "X Error processing your request. Please try again."

NoTrig == [name |-> "", regex |-> <<>>, callback_url |-> ""]
IdleTask == [pc |-> "idle"]
\* a handler run that has returned: nothing of it is left
DoneTask == [pc |-> "done"]
\* a handler run that ended by a rejection nobody catches
FailedTask == [pc |-> "failed"]

\* faulty variant, for comparison: the allow-list is not consulted
ProHitAnySender(tr, from, text) ==
    /\ Compiles(tr.regex)
    /\ regexTest(tr.regex, text)

\* the pro loop: the first trigger from index start on that compiles, lists
\* the sender and matches; 0 when the loop ends without one
ProHit(tr, from, text) ==
    /\ Compiles(tr.regex)
    /\ from \in allowedNumbers(tr.target_number)
    /\ regexTest(tr.regex, text)

ProScan(triggers, from, text, start) ==
    LET hits == {i \in start..Len(triggers) : ProHit(triggers[i], from, text)}
    IN IF hits = {} THEN 0 ELSE CHOOSE i \in hits : \A j \in hits : i <= j

\* faulty variant, for comparison: replace without the g flag takes out the
\* first such character only
cleanTextFirstOnly(text) ==
    LET low == trim(toLowerCase(text))
        bad == {i \in 1..Len(low) : ~IsAlnum(low[i])}
    IN IF bad = {} THEN low
       ELSE LET i == CHOOSE i \in bad : \A j \in bad : i <= j
            IN SubSeq(low, 1, i - 1) \o SubSeq(low, i + 1, Len(low))

\* the auto-reply loop: the first rule whose cleaned keyword equals the cleaned text
cleanText(text) == stripNonAlnum(trim(toLowerCase(text)))

AutoHit(rule, text) == cleanText(text) = stripNonAlnum(rule.keyword)

AutoScan(replies, text) ==
    LET hits == {i \in 1..Len(replies) : AutoHit(replies[i], text)}
    IN IF hits = {} THEN 0 ELSE CHOOSE i \in hits : \A j \in hits : i <= j

\* the generic pass: every trigger that compiles and matches, in list order
RegexHit(tr, text) == Compiles(tr.regex) /\ regexTest(tr.regex, text)

\* faulty variant, for comparison: a pattern that does not compile ends the pass
matchedTriggersAbort(triggers, text) ==
    IF \E i \in 1..Len(triggers) : ~Compiles(triggers[i].regex) THEN <<>>
    ELSE SelectSeq(triggers, LAMBDA tr : RegexHit(tr, text))

matchedTriggers(triggers, text) ==
    SelectSeq(triggers, LAMBDA tr : RegexHit(tr, text))

\* faulty variant, for comparison: the later of two equally long patterns wins
RECURSIVE reduceBestLast(_, _)
reduceBestLast(a, rest) ==
    IF rest = <<>> THEN a
    ELSE reduceBestLast(IF Len(Head(rest).regex) >= Len(a.regex) THEN Head(rest) ELSE a,
                        Tail(rest))

\* matched.reduce((a, b) => b.regex.length > a.regex.length ? b : a)
RECURSIVE reduceBest(_, _)
reduceBest(a, rest) ==
    IF rest = <<>> THEN a
    ELSE reduceBest(IF Len(Head(rest).regex) > Len(a.regex) THEN Head(rest) ELSE a,
                    Tail(rest))

\* faulty variant, for comparison: ties go to the later trigger
bestMatchLast(matched) == reduceBestLast(Head(matched), Tail(matched))

bestMatch(matched) == reduceBest(Head(matched), Tail(matched))

\* faulty variant, for comparison: the whole text is passed as the keyword
CallbackWholeText(tier, tr, text) ==
    [op |-> "callback", tier |-> tier, url |-> tr.callback_url,
     payload |-> [keyword |-> text, name |-> tr.name, pattern |-> tr.regex]]

\* axios.post(trigger.callback_url, {keyword: match[0], name, pattern})
Callback(tier, tr, text) ==
    [op |-> "callback", tier |-> tier, url |-> tr.callback_url,
     payload |-> [keyword |-> firstMatch(tr.regex, text), name |-> tr.name,
                  pattern |-> tr.regex]]

Send(tier, to, body) == [op |-> "send", tier |-> tier, to |-> to, text |-> body]

\* the handler leaves the pro loop: the loop's variables are gone
LeavePro(t) == [t EXCEPT !.proTriggers = <<>>, !.idx = 0, !.fb = FALSE]

\* faulty variant, for comparison: without a match the error text is sent
RegexPhaseAlwaysReplies(t) ==
    LET matched == matchedTriggers(regexTriggers[t.sessionId], t.text) IN
    IF matched = <<>>
    THEN [t EXCEPT !.pc = "regexSend", !.fb = TRUE,
                   !.last = Send("regex", t.from, FallbackRegex)]
    ELSE [t EXCEPT !.pc = "regexCallback", !.trig = bestMatch(matched),
                   !.calls = @ + 1,
                   !.last = Callback("regex", bestMatch(matched), t.text)]

\* the generic pass up to its await: axios.post for the best match, or the end
RegexPhase(t) ==
    LET matched == matchedTriggers(regexTriggers[t.sessionId], t.text) IN
    IF matched = <<>> THEN DoneTask
    ELSE [t EXCEPT !.pc = "regexCallback", !.trig = bestMatch(matched),
                   !.calls = @ + 1,
                   !.last = Callback("regex", bestMatch(matched), t.text)]

\* faulty variant, for comparison: the generic pass is tried before the auto-reply pass
AutoPhaseRegexFirst(t) ==
    LET replies == autoReplies[t.sessionId]
        i == AutoScan(replies, t.text)
    IN IF matchedTriggers(regexTriggers[t.sessionId], t.text) # <<>> \/ i = 0
       THEN RegexPhase(t)
       ELSE [t EXCEPT !.pc = "autoDelay", !.reply = replies[i].reply]

\* the auto-reply pass up to its await: the 1.5 s delay of the first match
AutoPhase(t) ==
    LET replies == autoReplies[t.sessionId]
        i == AutoScan(replies, t.text)
    IN IF i = 0 THEN RegexPhase(t)
       ELSE [t EXCEPT !.pc = "autoDelay", !.reply = replies[i].reply]

\* the pro loop from index start on, over the array the handler read when it
\* began, up to its await: axios.post for the first hit; the loop over, the
\* handler goes on to the auto-reply pass
ProLoop(t, start) ==
    LET i == ProScan(t.proTriggers, t.from, t.text, start)
    IN IF i = 0 THEN AutoPhase(LeavePro(t))
       ELSE [t EXCEPT !.pc = "proCallback", !.trig = t.proTriggers[i],
                      !.idx = i, !.fb = FALSE, !.calls = @ + 1,
                      !.last = Callback("pro", t.proTriggers[i], t.text)]

\* faulty variant, for comparison: one pro collection for every session
ProPhaseShared(t) ==
    ProLoop([t EXCEPT !.proTriggers =
                regexTriggersPro[CHOOSE s \in SessionIds : TRUE]], 1)

\* the pro pass: const proTriggers = regexTriggersPro[sessionId] || []
ProPhase(t) ==
    ProLoop([t EXCEPT !.proTriggers = regexTriggersPro[t.sessionId]], 1)

\* a handler run: its socket and session (the closure of connectSession), the
\* message, the trigger or reply it is working on, and what it has done so
\* far: callbacks invoked, sends that went out, and the last call of either
\* kind; fb says that the send in progress is the one of a catch block
NewTask(k, from, text) ==
    [pc |-> "start", sk |-> k, sessionId |-> sock[k].sessionId, from |-> from,
     text |-> text, trig |-> NoTrig, reply |-> "", calls |-> 0, sent |-> 0,
     last |-> [op |-> "none"], proTriggers |-> <<>>, idx |-> 0, fb |-> FALSE]

\* messages.upsert with one notify message from somebody else that has text
OnMessage(k, from, text) ==
    /\ sock[k].conn = "live"
    /\ sock[k].isConnected
    /\ arrived < MaxMsgs
    /\ arrived' = arrived + 1
    /\ tasks' = [tasks EXCEPT ![arrived + 1] = ProPhase(NewTask(k, from, text))]
    /\ UNCHANGED <<life, store, rules>>
    /\ UNCHANGED reqs

\* msg.message?.conversation || msg.message?.extendedTextMessage?.text
messageText(msg) ==
    IF msg.conversation \notin {Absent, <<>>} THEN msg.conversation
    ELSE msg.extendedText

\* messages.upsert with one notify message from somebody else, with text or
\* without: if (!text) return
OnUpsert(k, from, msg) ==
    IF messageText(msg) \in {Absent, <<>>}
    THEN /\ sock[k].conn = "live"
         /\ sock[k].isConnected
         /\ arrived < MaxMsgs
         /\ arrived' = arrived + 1
         /\ tasks' = [tasks EXCEPT ![arrived + 1] = DoneTask]
         /\ UNCHANGED <<life, store, rules>>
         /\ UNCHANGED reqs
    ELSE OnMessage(k, from, messageText(msg))

\* messages.upsert of type notify with several messages at once: the handler
\* takes messages[0], returns if it is the session's own, and never looks at
\* the others
OnDelivery(k, messages) ==
    /\ sock[k].conn = "live"
    /\ sock[k].isConnected
    /\ arrived + Len(messages) <= MaxMsgs
    /\ arrived' = arrived + Len(messages)
    /\ tasks' = [tasks EXCEPT ![arrived + 1] =
          IF messages[1].fromMe THEN DoneTask
          ELSE ProPhase(NewTask(k, messages[1].from, messages[1].text))]
    /\ UNCHANGED <<life, store, rules>>
    /\ UNCHANGED reqs

\* res.data as text: a string as it is, anything else through JSON.stringify
replyText(res) == IF res.isString THEN res.data ELSE res.json

\* axios.post returns or throws; the reply, or in the catch block the tier's
\* error text, is handed to sock.sendMessage
CallbackReturns(m, res) ==
    LET t == tasks[m] IN
    /\ t.pc \in {"proCallback", "regexCallback"}
    /\ tasks' = [tasks EXCEPT ![m] =
          IF t.pc = "proCallback"
          THEN [t EXCEPT !.pc = "proSend", !.fb = ~res.ok,
                  !.last = Send("pro", t.from,
                              IF res.ok THEN replyText(res) ELSE FallbackPro)]
          ELSE [t EXCEPT !.pc = "regexSend", !.fb = ~res.ok,
                  !.last = Send("regex", t.from,
                              IF res.ok THEN replyText(res) ELSE FallbackRegex)]]
    /\ UNCHANGED <<life, store, rules, arrived>>
    /\ UNCHANGED reqs

\* the 1.5 s delay before an auto-reply is over: the reply is handed to
\* sock.sendMessage
DelayElapsed(m) ==
    LET t == tasks[m] IN
    /\ t.pc = "autoDelay"
    /\ tasks' = [tasks EXCEPT ![m] =
          [t EXCEPT !.pc = "autoSend", !.last = Send("auto", t.from, t.reply)]]
    /\ UNCHANGED <<life, store, rules, arrived>>
    /\ UNCHANGED reqs

\* sock.sendMessage returns: the pro pass breaks out of its loop and the
\* handler goes on to the auto-reply pass; the other passes return
SendOk(t) ==
    IF t.pc = "proSend" THEN AutoPhase(LeavePro([t EXCEPT !.sent = @ + 1]))
    ELSE DoneTask

\* sock.sendMessage throws. In a try block the catch block sends the tier's
\* error text. In a catch block of the pro pass the outer catch of the loop
\* body logs and the loop goes on with the next trigger; in the catch block of
\* the generic pass, and in the auto-reply pass, nothing catches
SendThrows(t) ==
    IF t.pc = "autoSend" THEN FailedTask
    ELSE IF ~t.fb
    THEN [t EXCEPT !.fb = TRUE,
            !.last = Send(IF t.pc = "proSend" THEN "pro" ELSE "regex", t.from,
                          IF t.pc = "proSend" THEN FallbackPro ELSE FallbackRegex)]
    ELSE IF t.pc = "proSend" THEN ProLoop(t, t.idx + 1)
    ELSE FailedTask

SendReturns(m, ok) ==
    LET t == tasks[m] IN
    /\ t.pc \in {"proSend", "autoSend", "regexSend"}
    /\ tasks' = [tasks EXCEPT ![m] = IF ok THEN SendOk(t) ELSE SendThrows(t)]
    /\ UNCHANGED <<life, store, rules, arrived>>
    /\ UNCHANGED reqs

\* ------------------------------------------------------------------ inputs
NumA == <<"9","2","3","0","0","1","2","3","4","5">>
NumB == <<"9","2","3","0","0","1","2","3","4","6">>
Senders == {Jid(NumA), Jid(NumB)}

InboundTexts == {<<" ","H","i","!">>, <<"h","i","t">>, <<"n","o">>}

AutoReplyInputs ==
    {<<>>, <<[keyword |-> <<"H","-","i">>, reply |-> "yo"],
             [keyword |-> <<"h","i">>, reply |-> "again"]>>}

TrigA == [name |-> "A", regex |-> <<"h">>, callback_url |-> "urlA"]
TrigB == [name |-> "B", regex |-> <<"h","i">>, callback_url |-> "urlB"]
TrigC == [name |-> "C", regex |-> <<"i","!">>, callback_url |-> "urlC"]
RegexTriggerInputs == {<<>>, <<TrigA, TrigB, TrigC>>}

ProBad == [name |-> "P0", regex |-> <<"(">>, callback_url |-> "urlP0",
           target_number |-> NumA]
ProA == [name |-> "P1", regex |-> <<"i">>, callback_url |-> "urlP1",
         target_number |-> <<"+">> \o NumA \o <<",", " ">> \o <<"1","2">>]
ProB == [name |-> "P2", regex |-> <<"h">>, callback_url |-> "urlP2",
         target_number |-> NumA]
ProInputs == {<<>>, <<ProBad, ProA, ProB>>}

\* collections with an entry that lacks a required field, after a good entry
BadAutoReplyInputs ==
    {<<[keyword |-> <<"o","k">>, reply |-> "fine"],
       [keyword |-> Absent, reply |-> "x"]>>}
BadRegexTriggerInputs == {<<TrigA, [TrigB EXCEPT !.callback_url = ""]>>}
BadProInputs == {<<ProA, [ProB EXCEPT !.target_number = <<>>]>>}

Responses ==
    {[ok |-> TRUE, isString |-> TRUE, data |-> "pong", json |-> "\"pong\""],
     [ok |-> TRUE, isString |-> FALSE, data |-> "object", json |-> "{\"a\":1}"],
     [ok |-> FALSE, isString |-> FALSE, data |-> "", json |-> ""]}

\* ------------------------------------------------------------ specifications
Init ==
    /\ sessions \in [AllSessions -> ApiKeys \cup {NoKey}]
    /\ \A s \in OtherSessions : sessions[s] = NoKey
    /\ sockets = [s \in AllSessions |-> NoSock]
    /\ sock = [k \in SockIds |-> BlankSock]
    /\ timers = {}
    /\ connecting = [s \in AllSessions |-> [c \in BOOLEAN |-> 0]]
    /\ startup = {s \in AllSessions : sessions[s] # NoKey}
    /\ creds \in [AllSessions -> BOOLEAN]
    /\ \A s \in AllSessions : sessions[s] = NoKey => ~creds[s]
    /\ deleted = [s \in AllSessions |-> FALSE]
    /\ authDir = creds
    /\ ruleFiles = [s \in AllSessions |-> NoRuleFiles]
    /\ autoReplies = [s \in AllSessions |-> <<>>]
    /\ regexTriggers = [s \in AllSessions |-> <<>>]
    /\ regexTriggersPro = [s \in AllSessions |-> <<>>]
    /\ arrived = 0
    /\ tasks = [m \in MsgIds |-> IdleTask]
    /\ errs = {}
    /\ sendReq = [s \in AllSessions |-> IdleReq]
    /\ qrReq = [s \in AllSessions |-> IdleReq]
    /\ loading = [k \in SockIds |-> NotLoading]
    /\ arg = <<>>
    /\ out = NoOut

Lifecycle ==
    \/ \E s \in SessionIds, key \in ApiKeys : CreateSession(s, key)
    \/ \E s \in SessionIds, key \in CallerKeys : Reconnect(s, key)
    \/ \E s \in SessionIds : AutoReconnect(s)
    \/ \E k \in SockIds : TimerFire(k)
    \/ \E s \in SessionIds, c \in BOOLEAN : connectSessionEnd(s, c)
    \/ \E k \in SockIds : OnQr(k)
    \/ \E k \in SockIds : OnOpen(k)
    \/ \E k \in SockIds, loggedOut \in BOOLEAN : OnClose(k, loggedOut)
    \/ \E s \in SessionIds, key \in CallerKeys : DeleteSession(s, key)

\* the events and timers of the sockets, with no request from outside
Transport ==
    \/ \E k \in SockIds : TimerFire(k)
    \/ \E s \in SessionIds, c \in BOOLEAN : connectSessionEnd(s, c)
    \/ \E k \in SockIds : OnQr(k)
    \/ \E k \in SockIds : OnOpen(k)
    \/ \E k \in SockIds, loggedOut \in BOOLEAN : OnClose(k, loggedOut)

QrRoute ==
    \/ \E s \in SessionIds, key \in CallerKeys : QrRequest(s, key)
    \/ \E s \in SessionIds : QrConnected(s)
    \/ \E s \in SessionIds : QrPoll(s)
    \/ \E s \in SessionIds : QrTimeout(s)

Recipients == {NumA, <<"1","2">>}

SendRoute ==
    \/ \E s \in SessionIds, key \in CallerKeys, to \in Recipients : SendText(s, key, to)
    \/ \E s \in SessionIds : SendTextDelayElapsed(s)
    \/ \E s \in SessionIds, ok \in BOOLEAN : SendTextReturns(s, ok)

RuleWrites ==
    \/ \E s \in SessionIds, key \in CallerKeys, replies \in AutoReplyInputs,
          saveToAuth \in BOOLEAN : SetAutoReplies(s, key, replies, saveToAuth)
    \/ \E s \in SessionIds, key \in CallerKeys, triggers \in RegexTriggerInputs :
          SetRegexTriggers(s, key, triggers)
    \/ \E s \in SessionIds, key \in CallerKeys, triggers \in ProInputs :
          SetRegexTriggersPro(s, key, triggers)

RuleRejects ==
    \/ \E s \in SessionIds, key \in CallerKeys, replies \in BadAutoReplyInputs,
          saveToAuth \in BOOLEAN : SetAutoReplies(s, key, replies, saveToAuth)
    \/ \E s \in SessionIds, key \in CallerKeys, triggers \in BadRegexTriggerInputs :
          SetRegexTriggers(s, key, triggers)
    \/ \E s \in SessionIds, key \in CallerKeys, triggers \in BadProInputs :
          SetRegexTriggersPro(s, key, triggers)

\* any session-scoped route called with a key that verifyApiKey refuses
Denied ==
    \E s \in SessionIds, key \in CallerKeys : Unauthorized(s, key)

Dispatch ==
    \/ \E k \in SockIds, from \in Senders, text \in InboundTexts :
          OnMessage(k, from, text)
    \/ \E m \in MsgIds, res \in Responses : CallbackReturns(m, res)
    \/ \E m \in MsgIds : DelayElapsed(m)
    \/ \E m \in MsgIds, ok \in BOOLEAN : SendReturns(m, ok)


\* the connection lifecycle alone: no rule is written, no message arrives
SpecLifecycle == Init /\ [][Lifecycle]_vars

\* the lifecycle with the qr route
SpecQr == Init /\ [][Lifecycle \/ QrRoute]_vars

\* the lifecycle with the rule routes
SpecStore == Init /\ [][Lifecycle \/ RuleWrites]_vars

\* one session that was created, started with persisted credentials and opened
\* a value for the sessions of SessionIds, another for the other sessions
Only(x, blank) == [s \in AllSessions |-> IF s \in SessionIds THEN x ELSE blank]

InitConnected ==
    /\ sessions = Only(CHOOSE key \in ApiKeys : TRUE, NoKey)
    /\ sockets = Only(1, NoSock)
    /\ sock = [k \in SockIds |->
                 IF k = 1
                 THEN [FreshSock(CHOOSE s \in SessionIds : TRUE, TRUE)
                          EXCEPT !.isConnected = TRUE]
                 ELSE BlankSock]
    /\ timers = {}
    /\ connecting = [s \in AllSessions |-> [c \in BOOLEAN |-> 0]]
    /\ startup = {}
    /\ creds = Only(TRUE, FALSE)
    /\ deleted = [s \in AllSessions |-> FALSE]
    /\ authDir = creds
    /\ ruleFiles = [s \in AllSessions |-> NoRuleFiles]
    /\ autoReplies = [s \in AllSessions |-> <<>>]
    /\ regexTriggers = [s \in AllSessions |-> <<>>]
    /\ regexTriggersPro = [s \in AllSessions |-> <<>>]
    /\ arrived = 0
    /\ tasks = [m \in MsgIds |-> IdleTask]
    /\ errs = {}
    /\ sendReq = [s \in AllSessions |-> IdleReq]
    /\ qrReq = [s \in AllSessions |-> IdleReq]
    /\ loading = [k \in SockIds |-> NotLoading]
    /\ arg = <<>>
    /\ out = NoOut

\* the dispatch of the messages of a connected session, with the rule routes
SpecDispatch == InitConnected /\ [][RuleWrites \/ Dispatch]_vars

\* registration, deletion and the routes of a connected session, called with
\* and without the right key
Registry ==
    \/ \E s \in SessionIds, key \in ApiKeys : CreateSession(s, key)
    \/ \E s \in SessionIds, key \in CallerKeys : DeleteSession(s, key)

SpecAuth ==
    InitConnected /\ [][Registry \/ RuleWrites \/ SendRoute \/ Denied]_vars

\* the sendText route of a session that is connected at first
SpecSend == InitConnected /\ [][Transport \/ SendRoute]_vars

\* the rule routes of a connected session, with good and bad collections
SpecRules == InitConnected /\ [][RuleWrites \/ RuleRejects]_vars

\* a connected session whose three collections were written through the rule
\* routes, saved, before any message arrives
InitRules ==
    /\ sessions = Only(CHOOSE key \in ApiKeys : TRUE, NoKey)
    /\ sockets = Only(1, NoSock)
    /\ sock = [k \in SockIds |->
                 IF k = 1
                 THEN [FreshSock(CHOOSE s \in SessionIds : TRUE, TRUE)
                          EXCEPT !.isConnected = TRUE]
                 ELSE BlankSock]
    /\ timers = {}
    /\ connecting = [s \in AllSessions |-> [c \in BOOLEAN |-> 0]]
    /\ startup = {}
    /\ creds = Only(TRUE, FALSE)
    /\ deleted = [s \in AllSessions |-> FALSE]
    /\ authDir = creds
    /\ \E replies \in AutoReplyInputs :
          autoReplies = Only(formatReplies(replies), <<>>)
    /\ \E triggers \in RegexTriggerInputs : regexTriggers = Only(triggers, <<>>)
    /\ \E triggers \in ProInputs : regexTriggersPro = Only(triggers, <<>>)
    /\ ruleFiles = [s \in AllSessions |->
          IF s \in SessionIds
          THEN [f \in RuleFiles |->
                  FileOf(IF f = "autoReplies" THEN autoReplies[s]
                         ELSE IF f = "regexTriggers" THEN regexTriggers[s]
                         ELSE regexTriggersPro[s])]
          ELSE NoRuleFiles]
    /\ arrived = 0
    /\ tasks = [m \in MsgIds |-> IdleTask]
    /\ errs = {}
    /\ sendReq = [s \in AllSessions |-> IdleReq]
    /\ qrReq = [s \in AllSessions |-> IdleReq]
    /\ loading = [k \in SockIds |-> NotLoading]
    /\ arg = <<>>
    /\ out = NoOut

\* ------------------------------------------------- string functions alone
\* numbers of 0 to MaxDigits digits, bare, with a plus sign, with separators,
\* and with letters around them
DigitRun(n) == [i \in 1..n |-> <<"1","2","3","4","5","6","7","8","9","0">>[((i - 1) % 10) + 1]]

NumberInputs ==
    UNION {{DigitRun(n),
            <<"+">> \o DigitRun(n),
            IF n > 3 THEN SubSeq(DigitRun(n), 1, 3) \o <<"-", " ">>
                            \o SubSeq(DigitRun(n), 4, n)
            ELSE <<"-">> \o DigitRun(n),
            <<"t","e","l",":">> \o DigitRun(n) \o <<"x">>} : n \in 0..MaxDigits}

\* texts of up to MaxLen characters: letters of both cases, a digit, a space
\* and punctuation
TextChars == {"H", "i", "1", " ", "!"}
RECURSIVE TextsUpTo(_)
TextsUpTo(n) ==
    IF n = 0 THEN {<<>>}
    ELSE LET shorter == TextsUpTo(n - 1)
         IN shorter \cup {Append(str, c) : str \in shorter, c \in TextChars}

TextInputs == TextsUpTo(MaxLen)

\* a connected session that gets no request and no event, and the string a
\* function is about to be applied to
InitCalc(inputs) ==
    /\ sessions = Only(CHOOSE key \in ApiKeys : TRUE, NoKey)
    /\ sockets = Only(1, NoSock)
    /\ sock = [k \in SockIds |->
                 IF k = 1
                 THEN [FreshSock(CHOOSE s \in SessionIds : TRUE, TRUE)
                          EXCEPT !.isConnected = TRUE]
                 ELSE BlankSock]
    /\ timers = {}
    /\ connecting = [s \in AllSessions |-> [c \in BOOLEAN |-> 0]]
    /\ startup = {}
    /\ creds = Only(TRUE, FALSE)
    /\ deleted = [s \in AllSessions |-> FALSE]
    /\ authDir = creds
    /\ ruleFiles = [s \in AllSessions |-> NoRuleFiles]
    /\ autoReplies = [s \in AllSessions |-> <<>>]
    /\ regexTriggers = [s \in AllSessions |-> <<>>]
    /\ regexTriggersPro = [s \in AllSessions |-> <<>>]
    /\ arrived = 0
    /\ tasks = [m \in MsgIds |-> IdleTask]
    /\ errs = {}
    /\ sendReq = [s \in AllSessions |-> IdleReq]
    /\ qrReq = [s \in AllSessions |-> IdleReq]
    /\ loading = [k \in SockIds |-> NotLoading]
    /\ arg \in inputs
    /\ out = NoOut

\* formatNumber(arg)
FormatNumberCall ==
    /\ out = NoOut
    /\ out' = [fn |-> "formatNumber", val |-> formatNumber(arg)]
    /\ UNCHANGED <<life, store, rules, msgs, errs, sendReq, qrReq, loading, arg>>

\* formatNumber applied to the address it returned
FormatNumberAgain ==
    /\ out.fn = "formatNumber"
    /\ out.val # NullJid
    /\ arg # jidText(out.val)
    /\ arg' = jidText(out.val)
    /\ out' = [fn |-> "formatNumber", val |-> formatNumber(jidText(out.val))]
    /\ UNCHANGED <<life, store, rules, msgs, errs, sendReq, qrReq, loading>>

SpecFormatNumber ==
    InitCalc(NumberInputs) /\ [][FormatNumberCall \/ FormatNumberAgain]_vars

\* the cleaned text of the auto-reply pass
CleanTextCall ==
    /\ out = NoOut
    /\ out' = [fn |-> "cleanText", val |-> cleanText(arg)]
    /\ UNCHANGED <<life, store, rules, msgs, errs, sendReq, qrReq, loading, arg>>

\* the cleaning applied to a cleaned text
CleanTextAgain ==
    /\ out.fn = "cleanText"
    /\ arg # out.val
    /\ arg' = out.val
    /\ out' = [fn |-> "cleanText", val |-> cleanText(out.val)]
    /\ UNCHANGED <<life, store, rules, msgs, errs, sendReq, qrReq, loading>>

SpecCleanText ==
    InitCalc(TextInputs) /\ [][CleanTextCall \/ CleanTextAgain]_vars

\* a registered session whose socket is about to open; what is persisted and
\* what is in memory come from earlier connections and rule writes, and need
\* not agree
InitOpening ==
    /\ sessions = Only(CHOOSE key \in ApiKeys : TRUE, NoKey)
    /\ sockets = Only(1, NoSock)
    /\ sock = [k \in SockIds |->
                 IF k = 1 THEN FreshSock(CHOOSE s \in SessionIds : TRUE, TRUE)
                 ELSE BlankSock]
    /\ timers = {}
    /\ connecting = [s \in AllSessions |-> [c \in BOOLEAN |-> 0]]
    /\ startup = {}
    /\ creds = Only(TRUE, FALSE)
    /\ deleted = [s \in AllSessions |-> FALSE]
    /\ authDir = creds
    /\ \E a \in {NoFile} \cup {FileOf(formatReplies(x)) : x \in AutoReplyInputs},
          b \in {NoFile} \cup {FileOf(x) : x \in RegexTriggerInputs},
          c \in {NoFile} \cup {FileOf(x) : x \in ProInputs} :
          ruleFiles = Only([f \in RuleFiles |->
                              IF f = "autoReplies" THEN a
                              ELSE IF f = "regexTriggers" THEN b ELSE c],
                           NoRuleFiles)
    /\ \E replies \in AutoReplyInputs :
          autoReplies = Only(formatReplies(replies), <<>>)
    /\ \E triggers \in RegexTriggerInputs : regexTriggers = Only(triggers, <<>>)
    /\ \E triggers \in ProInputs : regexTriggersPro = Only(triggers, <<>>)
    /\ arrived = 0
    /\ tasks = [m \in MsgIds |-> IdleTask]
    /\ errs = {}
    /\ sendReq = [s \in AllSessions |-> IdleReq]
    /\ qrReq = [s \in AllSessions |-> IdleReq]
    /\ loading = [k \in SockIds |-> NotLoading]
    /\ arg = <<>>
    /\ out = NoOut

\* the open branch with its reads, and the messages of the connection
OpenSteps ==
    \/ \E k \in SockIds : OpenBegin(k)
    \/ \E k \in SockIds, ok \in BOOLEAN : OpenRead(k, ok)
    \/ \E k \in SockIds : OnMessage(k, Jid(NumA), <<" ","H","i","!">>)

SpecOpen == InitOpening /\ [][OpenSteps]_vars

\* two registered sessions, each with a socket of its own that is open or
\* about to open
InitTwo ==
    /\ sessions = [s \in AllSessions |-> CHOOSE key \in ApiKeys : TRUE]
    /\ sockets = [s \in AllSessions |-> IF s \in SessionIds THEN 1 ELSE 2]
    /\ \E open \in [AllSessions -> BOOLEAN] :
          sock = [k \in SockIds |->
                    IF \E s \in AllSessions : sockets[s] = k
                    THEN LET s == CHOOSE x \in AllSessions : sockets[x] = k
                         IN [FreshSock(s, TRUE) EXCEPT !.isConnected = open[s]]
                    ELSE BlankSock]
    /\ timers = {}
    /\ connecting = [s \in AllSessions |-> [c \in BOOLEAN |-> 0]]
    /\ startup = {}
    /\ creds = [s \in AllSessions |-> TRUE]
    /\ deleted = [s \in AllSessions |-> FALSE]
    /\ authDir = creds
    /\ ruleFiles = [s \in AllSessions |-> NoRuleFiles]
    /\ autoReplies = [s \in AllSessions |-> <<>>]
    /\ regexTriggers = [s \in AllSessions |-> <<>>]
    /\ regexTriggersPro = [s \in AllSessions |-> <<>>]
    /\ arrived = 0
    /\ tasks = [m \in MsgIds |-> IdleTask]
    /\ errs = {}
    /\ sendReq = [s \in AllSessions |-> IdleReq]
    /\ qrReq = [s \in AllSessions |-> IdleReq]
    /\ loading = [k \in SockIds |-> NotLoading]
    /\ arg = <<>>
    /\ out = NoOut

\* what is done to either of two sessions: rule writes, open, delete, and the
\* arrival of a message
TwoSessions ==
    \/ \E s \in AllSessions, key \in ApiKeys, replies \in AutoReplyInputs \ {<<>>},
          saveToAuth \in BOOLEAN : SetAutoReplies(s, key, replies, saveToAuth)
    \/ \E s \in AllSessions, key \in ApiKeys,
          triggers \in RegexTriggerInputs \ {<<>>} :
             SetRegexTriggers(s, key, triggers)
    \/ \E s \in AllSessions, key \in ApiKeys, triggers \in ProInputs \ {<<>>} :
          SetRegexTriggersPro(s, key, triggers)
    \/ \E k \in SockIds : OnOpen(k)
    \/ \E s \in AllSessions, key \in ApiKeys : DeleteSession(s, key)
    \/ \E k \in SockIds : OnMessage(k, Jid(NumA), <<" ","H","i","!">>)

SpecIsolation == InitTwo /\ [][TwoSessions]_vars

\* the message handler over collections that stay as they are
SpecHandler == InitRules /\ [][Dispatch]_vars

\* collections with patterns that new RegExp refuses, before good entries and
\* alone
TrigBad == [name |-> "X", regex |-> <<"(","h","i">>, callback_url |-> "urlX"]
BadPatternTriggers == {<<TrigBad, TrigA, TrigB, TrigC>>, <<TrigBad>>}
BadPatternPro == {<<ProBad, ProA, ProB>>, <<ProBad>>}

InitBadPatterns ==
    /\ sessions = Only(CHOOSE key \in ApiKeys : TRUE, NoKey)
    /\ sockets = Only(1, NoSock)
    /\ sock = [k \in SockIds |->
                 IF k = 1
                 THEN [FreshSock(CHOOSE s \in SessionIds : TRUE, TRUE)
                          EXCEPT !.isConnected = TRUE]
                 ELSE BlankSock]
    /\ timers = {}
    /\ connecting = [s \in AllSessions |-> [c \in BOOLEAN |-> 0]]
    /\ startup = {}
    /\ creds = Only(TRUE, FALSE)
    /\ deleted = [s \in AllSessions |-> FALSE]
    /\ authDir = creds
    /\ \E replies \in AutoReplyInputs :
          autoReplies = Only(formatReplies(replies), <<>>)
    /\ \E triggers \in BadPatternTriggers : regexTriggers = Only(triggers, <<>>)
    /\ \E triggers \in BadPatternPro : regexTriggersPro = Only(triggers, <<>>)
    /\ ruleFiles = [s \in AllSessions |->
          IF s \in SessionIds
          THEN [f \in RuleFiles |->
                  FileOf(IF f = "autoReplies" THEN autoReplies[s]
                         ELSE IF f = "regexTriggers" THEN regexTriggers[s]
                         ELSE regexTriggersPro[s])]
          ELSE NoRuleFiles]
    /\ arrived = 0
    /\ tasks = [m \in MsgIds |-> IdleTask]
    /\ errs = {}
    /\ sendReq = [s \in AllSessions |-> IdleReq]
    /\ qrReq = [s \in AllSessions |-> IdleReq]
    /\ loading = [k \in SockIds |-> NotLoading]
    /\ arg = <<>>
    /\ out = NoOut

\* messages without text, with an empty text, and with the text of an
\* extended text message
UpsertMessages ==
    {[conversation |-> Absent, extendedText |-> Absent],
     [conversation |-> <<>>, extendedText |-> Absent],
     [conversation |-> Absent, extendedText |-> <<>>],
     [conversation |-> <<>>, extendedText |-> <<"h","i","t">>],
     [conversation |-> <<"n","o">>, extendedText |-> <<"h","i","t">>]}

\* the message handler with messages of every kind
SpecUpsert ==
    InitRules /\ [][Dispatch \/ \E k \in SockIds, from \in Senders,
                                    msg \in UpsertMessages : OnUpsert(k, from, msg)]_vars

\* the message handler up to its first await: messages of every kind arrive
\* and no callback, delay or send returns, so that a run that is over is one
\* that ended without an action
Arrivals ==
    \/ \E k \in SockIds, from \in Senders, text \in InboundTexts :
          OnMessage(k, from, text)
    \/ \E k \in SockIds, from \in Senders, msg \in UpsertMessages :
          OnUpsert(k, from, msg)

SpecArrival == InitRules /\ [][Arrivals]_vars

\* the message handler over collections with patterns that do not compile
SpecBadPatterns == InitBadPatterns /\ [][Dispatch]_vars

\* a connected session whose collections are persisted, left to the events
\* of its sockets: no rule route is called
SpecRepair == InitRules /\ [][Transport]_vars

\* a connected session with rules whose handle is replaced or removed while
\* the events of all its sockets, old and new, keep coming
Replacing ==
    \/ Transport
    \/ \E s \in SessionIds, key \in ApiKeys : CreateSession(s, key)
    \/ \E s \in SessionIds, key \in ApiKeys : Reconnect(s, key)
    \/ \E s \in SessionIds, key \in ApiKeys : DeleteSession(s, key)
    \/ \E k \in SockIds : OnMessage(k, Jid(NumA), <<" ","H","i","!">>)

SpecReplace == InitRules /\ [][Replacing]_vars

\* a connected session with rules: messages are dispatched and sendText is
\* called while the socket may close
Sending ==
    \/ Dispatch
    \/ SendRoute
    \/ \E k \in SockIds, loggedOut \in BOOLEAN : OnClose(k, loggedOut)

SpecSending == InitRules /\ [][Sending]_vars

\* the keys of a caller who was never given the key of a session
OutsiderKeys == CallerKeys \ (ApiKeys \cup {NoKey})

\* a connected session with its owner's key registered, and the calls of a
\* caller who has a key of their own only
Outsider ==
    \/ \E s \in SessionIds, key \in OutsiderKeys : CreateSession(s, key)
    \/ \E s \in SessionIds, key \in OutsiderKeys \cup {NoKey} : Unauthorized(s, key)
    \/ \E s \in SessionIds, key \in OutsiderKeys : DeleteSession(s, key)
    \/ \E s \in SessionIds, key \in OutsiderKeys, replies \in AutoReplyInputs,
          saveToAuth \in BOOLEAN : SetAutoReplies(s, key, replies, saveToAuth)
    \/ \E s \in SessionIds, key \in OutsiderKeys, triggers \in RegexTriggerInputs :
          SetRegexTriggers(s, key, triggers)
    \/ \E s \in SessionIds, key \in OutsiderKeys, triggers \in ProInputs :
          SetRegexTriggersPro(s, key, triggers)
    \/ \E s \in SessionIds, key \in OutsiderKeys, to \in Recipients :
          SendText(s, key, to)
    \/ \E s \in SessionIds : SendTextDelayElapsed(s)
    \/ \E s \in SessionIds, ok \in BOOLEAN : SendTextReturns(s, ok)

SpecOutsider == InitConnected /\ [][Outsider]_vars

\* the lifecycle with a logout that may fail
SpecDelete ==
    Init /\ [][Lifecycle \/ \E s \in SessionIds, key \in ApiKeys :
                                DeleteSessionLogoutFails(s, key)]_vars

\* deliveries of two messages: both from somebody else, or the first one the
\* session's own
Deliveries ==
    {<<[fromMe |-> FALSE, from |-> Jid(NumA), text |-> <<" ","H","i","!">>],
       [fromMe |-> FALSE, from |-> Jid(NumB), text |-> <<"h","i","t">>]>>,
     <<[fromMe |-> TRUE, from |-> Jid(NumA), text |-> <<"n","o">>],
       [fromMe |-> FALSE, from |-> Jid(NumA), text |-> <<"h","i","t">>]>>}

\* the message handler with deliveries of one message and of several
SpecDelivery ==
    InitRules /\ [][Dispatch \/ \E k \in SockIds, messages \in Deliveries :
                                     OnDelivery(k, messages)]_vars

\* the lifecycle with the timers of the event loop: a timer that was set fires
SpecLifecycleFair ==
    SpecLifecycle /\ \A k \in SockIds : WF_vars(TimerFire(k))

\* everything together
Next ==
    \/ Lifecycle \/ QrRoute \/ SendRoute \/ RuleWrites \/ RuleRejects
    \/ Denied \/ Dispatch \/ Arrivals \/ TwoSessions \/ OpenSteps
    \/ Replacing \/ Sending \/ Outsider
    \/ \E k \in SockIds, messages \in Deliveries : OnDelivery(k, messages)
    \/ \E s \in SessionIds, key \in ApiKeys : DeleteSessionLogoutFails(s, key)
    \/ FormatNumberCall \/ FormatNumberAgain \/ CleanTextCall \/ CleanTextAgain

Spec == Init /\ [][Next]_vars

\* ------------------------------------------------------------------- claims
RunsOf(s) == {m \in MsgIds : Running(m) /\ tasks[m].sessionId = s}
LiveSocks(s) == {k \in SockIds : sock[k].conn = "live" /\ sock[k].sessionId = s}
RetryPending(s) ==
    \/ \E k \in timers : sock[k].sessionId = s
    \/ ConnectingCount(s) > 0

\* C1: the handler issues at most one outbound send for an inbound message:
\* no send is issued for a message after a send for it went out
C1_AtMostOneSend ==
    \A m \in MsgIds :
        tasks[m].pc \in {"proSend", "autoSend", "regexSend"} => tasks[m].sent = 0

\* C2: the first action of a handler run comes from the highest tier that
\* matches (pro, then auto-reply, then generic regex), a generic regex
\* callback is never invoked when an auto-reply rule matches, and a run whose
\* auto-reply pass matched invokes no callback from then on
C2_FirstAct(m) ==
    LET t == tasks'[m]
        s == t.sessionId
        pro == ProScan(regexTriggersPro[s], t.from, t.text, 1) # 0
        auto == AutoScan(autoReplies[s], t.text) # 0
        regex == matchedTriggers(regexTriggers[s], t.text) # <<>>
    IN /\ t.pc = "proCallback" => pro /\ t.last.tier = "pro"
       /\ t.pc = "autoDelay" => ~pro /\ auto /\ t.calls = 0
       /\ t.pc = "regexCallback" => ~pro /\ ~auto /\ regex /\ t.last.tier = "regex"

C2_AutoEndsRun(m) ==
    LET t == tasks[m] IN
    /\ (t.pc # "regexCallback" /\ tasks'[m].pc = "regexCallback")
          => AutoScan(autoReplies[t.sessionId], t.text) = 0
    /\ (t.pc \in {"autoDelay", "autoSend"} /\ tasks'[m] # t)
          => /\ tasks'[m].pc \in {"autoSend", "done", "failed"}
             /\ tasks'[m].pc = "autoSend" =>
                   tasks'[m].calls = t.calls /\ tasks'[m].last.tier = "auto"

C2_TierPriority ==
    [][\A m \in MsgIds :
          /\ (tasks[m].pc = "idle" /\ Running(m)') => C2_FirstAct(m)
          /\ Running(m) => C2_AutoEndsRun(m)]_vars

\* C2 witness: a run whose message matched all three tiers invoked the pro callback
C2_Witness ==
    \E m \in MsgIds :
        /\ tasks[m].pc = "proCallback"
        /\ AutoScan(autoReplies[tasks[m].sessionId], tasks[m].text) # 0
        /\ matchedTriggers(regexTriggers[tasks[m].sessionId], tasks[m].text) # <<>>

\* C3: a session identifier never has two live transport connections
C3_OneLiveTransport ==
    \A s \in SessionIds : Cardinality(LiveSocks(s)) <= 1

\* C4: once DELETE has completed, no handle is registered for the identifier
\* until the session is created again
C4_NoHandleAfterDelete ==
    \A s \in SessionIds : deleted[s] => sockets[s] = NoSock

\* C5: after DELETE the session is gone from the registry, its credentials
\* and rule files are erased, it is not connected, and its in-memory rule
\* collections are empty
C5_DeleteClears ==
    \A s \in SessionIds :
        deleted[s] =>
            /\ sessions[s] = NoKey
            /\ ~creds[s] /\ ruleFiles[s] = NoRuleFiles
            /\ sockets[s] = NoSock \/ ~sock[sockets[s]].isConnected
            /\ autoReplies[s] = <<>>
            /\ regexTriggers[s] = <<>>
            /\ regexTriggersPro[s] = <<>>

\* C6: a handle is registered exactly when the session is awaiting pairing,
\* connected, or disconnected with a retry pending; there is none for a
\* session that was never started and none after deletion
Status(s) ==
    IF sockets[s] = NoSock THEN "Unlinked"
    ELSE IF sock[sockets[s]].isConnected THEN "Connected"
    ELSE IF sock[sockets[s]].conn = "closed" THEN "Disconnected"
    ELSE "AwaitingPairing"

C6_HandleIffStatus ==
    \A s \in SessionIds :
        /\ sockets[s] # NoSock <=>
              \/ Status(s) \in {"AwaitingPairing", "Connected"}
              \/ Status(s) = "Disconnected" /\ RetryPending(s)
        /\ deleted[s] => sockets[s] = NoSock

\* C7: connectSession does nothing when the registered handle is connected
C7_StartIdempotent ==
    [][\A s \in SessionIds, c \in BOOLEAN :
          /\ connectSessionEnd(s, c)
          /\ sockets[s] # NoSock
          /\ sock[sockets[s]].isConnected
          => sockets' = sockets /\ sock' = sock]_vars

\* C8: a close with a transient reason leaves the handle not connected and the
\* credentials untouched and sets a timer, however many closes came before;
\* firing a timer starts connectSession with the credentials that are
\* persisted; and every timer fires: it is pending again and again only by
\* being set again ((k \in timers) ~> (k \notin timers), written as []<>)
C8_TransientRetry ==
    /\ [][\A k \in SockIds :
            /\ OnClose(k, FALSE) =>
                  /\ ~sock'[k].isConnected
                  /\ k \in timers'
                  /\ creds' = creds
            /\ k \in timers /\ k \notin timers' =>
                  LET s == sock[k].sessionId IN
                  connecting'[s][creds[s]] = connecting[s][creds[s]] + 1]_vars
    /\ \A k \in SockIds : []<>(k \notin timers)

\* C8 witness: the timer of a closed socket is pending with the credentials kept
C8_Witness ==
    \E k \in timers :
        /\ sock[k].conn = "closed"
        /\ creds[sock[k].sessionId]
        /\ Registered(k)

C10_OneAtATime ==
    \A s \in SessionIds : Cardinality(RunsOf(s)) <= 1

\* C11: the generic trigger whose callback is invoked matches the text, no
\* matching trigger of the collection has a longer pattern string, and no
\* matching trigger of the same pattern length stands before it
C11_LongestEarliest ==
    \A m \in MsgIds :
        tasks[m].pc = "regexCallback" =>
            LET trs == regexTriggers[tasks[m].sessionId]
                hits == {i \in 1..Len(trs) : RegexHit(trs[i], tasks[m].text)}
            IN \E i \in hits :
                  /\ trs[i] = tasks[m].trig
                  /\ \A j \in hits :
                        \/ Len(trs[j].regex) < Len(trs[i].regex)
                        \/ Len(trs[j].regex) = Len(trs[i].regex) /\ i <= j

\* C11 witness: two matching triggers of the same, greatest pattern length,
\* and the callback of the earlier one invoked
C11_Witness ==
    \E m \in MsgIds :
        /\ tasks[m].pc = "regexCallback"
        /\ tasks[m].trig = TrigB
        /\ RegexHit(TrigC, tasks[m].text)
        /\ regexTriggers[tasks[m].sessionId] = <<TrigA, TrigB, TrigC>>

\* C12: the pro trigger whose callback is invoked is the first of the
\* collection that lists the sender and matches the text; the callback of a
\* later one is never invoked for the message
C12_FirstProOnly ==
    \A m \in MsgIds :
        tasks[m].pc = "proCallback" =>
            LET trs == regexTriggersPro[tasks[m].sessionId]
                hits == {i \in 1..Len(trs) :
                            ProHit(trs[i], tasks[m].from, tasks[m].text)}
            IN /\ tasks[m].idx \in hits
               /\ \A j \in hits : tasks[m].idx <= j

\* C13: a pro trigger's callback is invoked for a message only when the
\* sender's address is in the trigger's normalized allow-list
C13_AllowListOnly ==
    \A m \in MsgIds :
        tasks[m].pc = "proCallback" =>
            /\ tasks[m].from \in allowedNumbers(tasks[m].trig.target_number)
            /\ tasks[m].last.url = tasks[m].trig.callback_url

\* C13 witness: a message from a sender no pro trigger lists, whose text the
\* pro patterns match, went past the pro pass to the generic callback
C13_Witness ==
    \E m \in MsgIds :
        /\ tasks[m].pc = "regexCallback"
        /\ tasks[m].calls = 1
        /\ tasks[m].from = Jid(NumB)
        /\ regexTriggersPro[tasks[m].sessionId] = <<ProBad, ProA, ProB>>
        /\ regexTest(ProA.regex, tasks[m].text)
        /\ regexTest(ProB.regex, tasks[m].text)

\* C14: a run is in its auto-reply pass exactly when the text and the keyword
\* of a rule are equal after lower-casing and dropping every character that
\* is no letter or digit: the reply of the first such rule is what is sent,
\* as it is, and the run invokes no callback, before or after; a run that
\* went on to the generic pass found no such rule
C14_Norm(str) ==
    SelectSeq(toLowerCase(str),
              LAMBDA c : c \in {Lower[i] : i \in DOMAIN Lower} \cup Digits)

C14_Rules(m) ==
    LET replies == autoReplies[tasks[m].sessionId]
    IN {i \in 1..Len(replies) :
           C14_Norm(replies[i].keyword) = C14_Norm(tasks[m].text)}

C14_AutoReplyMatch ==
    /\ [](\A m \in MsgIds :
            /\ tasks[m].pc \in {"autoDelay", "autoSend"} =>
                  tasks[m].calls = 0
            /\ tasks[m].pc \in {"autoDelay", "autoSend"} =>
                  \E i \in C14_Rules(m) :
                      /\ \A j \in C14_Rules(m) : i <= j
                      /\ tasks[m].reply = autoReplies[tasks[m].sessionId][i].reply
            /\ tasks[m].pc = "autoSend" =>
                  tasks[m].last = Send("auto", tasks[m].from, tasks[m].reply)
            /\ tasks[m].pc \in {"regexCallback", "regexSend"} => C14_Rules(m) = {})
    /\ [][\A m \in MsgIds :
            (tasks[m].pc \in {"autoDelay", "autoSend"} /\ tasks'[m] # tasks[m]) =>
                /\ tasks'[m].pc \in {"autoSend", "done", "failed"}
                /\ tasks'[m].pc = "autoSend" => tasks'[m].calls = tasks[m].calls]_vars

\* C15: the text sent after a failed callback, in the pro pass and in the
\* generic pass alike, is the error text "X Error processing your request."
\* (X for the cross mark), and the session stays connected with no timer set
C15_FallbackText ==
    \A m \in MsgIds :
        (tasks[m].pc \in {"proSend", "regexSend"} /\ tasks[m].fb) =>
            /\ tasks[m].last.text = "X Error processing your request."
            /\ \A s \in SessionIds :
                  sockets[s] # NoSock /\ sock[sockets[s]].isConnected
            /\ timers = {}

\* C16: a bulk write of a collection in which an entry lacks a required field
\* (name, pattern or callback URL of a trigger, allow-list of a pro trigger,
\* keyword of an auto-reply) changes neither the collection in memory nor the
\* persisted one
C16_Lacks(tr, fields) ==
    \E f \in fields :
        IF f \in {"name", "callback_url"} THEN tr[f] = ""
        ELSE tr[f] \in {<<>>, Absent}

C16_Invalid(entries, fields) ==
    \E i \in 1..Len(entries) : C16_Lacks(entries[i], fields)

C17_Replaced(s, f, memory, written) ==
    /\ ruleFiles'[s][f] = FileOf(memory)
    /\ getRules(s, f)' = [code |-> 200, data |-> written]

C17_RoundTrip ==
    [][\A s \in SessionIds, key \in ApiKeys :
          /\ \A replies \in AutoReplyInputs, saveToAuth \in BOOLEAN :
                SetAutoReplies(s, key, replies, saveToAuth)
                => C17_Replaced(s, "autoReplies", autoReplies'[s], replies)
          /\ \A triggers \in RegexTriggerInputs :
                SetRegexTriggers(s, key, triggers)
                => C17_Replaced(s, "regexTriggers", regexTriggers'[s], triggers)
          /\ \A triggers \in ProInputs :
                SetRegexTriggersPro(s, key, triggers)
                => C17_Replaced(s, "regexTriggersPro", regexTriggersPro'[s],
                                triggers)]_vars

\* C19: sendText answers 409 when the session has no connected handle, 400
\* when the recipient is not a phone number formatNumber accepts, in both
\* cases without a send; a send is issued only on the handle of a connected
\* session and to a valid recipient.
C19_Refused(s, code) ==
    /\ code \in errs'
    /\ sendReq'[s] = sendReq[s]

C19_HandleConnected(s) ==
    /\ sockets[s] # NoSock
    /\ sock[sockets[s]].isConnected

C19_SendOnlyConnected ==
    [][\A s \in SessionIds :
         /\ \A key \in ApiKeys, to \in Recipients :
               SendText(s, key, to) =>
                  /\ ~C19_HandleConnected(s) => C19_Refused(s, "409")
                  /\ (C19_HandleConnected(s) /\ formatNumber(to) = NullJid)
                        => C19_Refused(s, "400")
         /\ SendTextDelayElapsed(s) =>
               /\ sendReq[s].jid # NullJid
               /\ sendReq[s].sk # NoSock
               /\ sock[sendReq[s].sk].isConnected]_vars

\* C20: the qr request ends after at most MaxPolls polls, and a poll made
\* while the session has a pairing code or is connected answers the request
\* instead of going on towards 408.
C20_Available(s) ==
    /\ sockets[s] # NoSock
    /\ sock[sockets[s]].lastQR > 0 \/ sock[sockets[s]].isConnected

C20_Bounded ==
    \A s \in SessionIds : qrReq[s].pc = "polling" => qrReq[s].i <= MaxPolls

C20_PollSeesSession ==
    [][\A s \in SessionIds :
         /\ C20_Bounded'
         /\ (QrPoll(s) /\ C20_Available(s)) => qrReq'[s] = IdleReq]_vars

\* C18: a session-scoped route called with a key that is not the one registered
\* for the session is answered 401, its handler does not act, and nothing but
\* the answer changes.
C18_Handlers(s, key) ==
    \/ QrRequest(s, key)
    \/ Reconnect(s, key)
    \/ DeleteSession(s, key)
    \/ \E to \in Recipients : SendText(s, key, to)
    \/ \E replies \in AutoReplyInputs \cup BadAutoReplyInputs, saveToAuth \in BOOLEAN :
          SetAutoReplies(s, key, replies, saveToAuth)
    \/ \E triggers \in RegexTriggerInputs \cup BadRegexTriggerInputs :
          SetRegexTriggers(s, key, triggers)
    \/ \E triggers \in ProInputs \cup BadProInputs :
          SetRegexTriggersPro(s, key, triggers)

C18_Unauthorized401 ==
    [][\A s \in SessionIds, key \in CallerKeys :
         (key = NoKey \/ sessions[s] # key) =>
            /\ C18_Handlers(s, key) => UNCHANGED vars
            /\ Unauthorized(s, key) =>
                  /\ "401" \in errs'
                  /\ UNCHANGED <<life, store, rules, msgs>>]_vars

C18_Witness ==
    /\ "401" \in errs
    /\ \E s \in SessionIds :
          /\ sessions[s] \in ApiKeys
          /\ sockets[s] # NoSock
          /\ sock[sockets[s]].isConnected
          /\ autoReplies[s] # <<>>

\* C21: a message on session a is evaluated against a's three collections
\* only, and a rule write, an open event or a delete for another session b
\* leaves the collections of a as they are.
C21_RulesOf(s) ==
    <<autoReplies[s], regexTriggers[s], regexTriggersPro[s], ruleFiles[s]>>

C21_About(b) ==
    \/ \E key \in ApiKeys, replies \in AutoReplyInputs, saveToAuth \in BOOLEAN :
          SetAutoReplies(b, key, replies, saveToAuth)
    \/ \E key \in ApiKeys, triggers \in RegexTriggerInputs :
          SetRegexTriggers(b, key, triggers)
    \/ \E key \in ApiKeys, triggers \in ProInputs :
          SetRegexTriggersPro(b, key, triggers)
    \/ \E key \in ApiKeys : DeleteSession(b, key)
    \/ \E k \in SockIds : sock[k].sessionId = b /\ OnOpen(k)

C21_Evaluated(t, a) ==
    /\ t.pc # "done" => t.sessionId = a
    /\ t.pc = "proCallback" =>
          /\ t.proTriggers = regexTriggersPro[a]
          /\ \E i \in DOMAIN regexTriggersPro[a] : regexTriggersPro[a][i] = t.trig
    /\ t.pc = "autoDelay" =>
          \E i \in DOMAIN autoReplies[a] : autoReplies[a][i].reply = t.reply
    /\ t.pc = "regexCallback" =>
          \E i \in DOMAIN regexTriggers[a] : regexTriggers[a][i] = t.trig

C21_Isolated ==
    [][\A a \in AllSessions : \A b \in AllSessions \ {a} :
         /\ C21_RulesOf(a)' # C21_RulesOf(a) => ~C21_About(b)
         /\ arrived' # arrived =>
               \A k \in SockIds, from \in Senders, text \in InboundTexts :
                  (sock[k].sessionId = a /\ OnMessage(k, from, text))
                     => C21_Evaluated(tasks'[arrived + 1], a)]_vars

C21_Witness ==
    \E a \in AllSessions : \E b \in AllSessions \ {a}, m \in MsgIds :
       /\ tasks[m].pc = "done"
       /\ arrived = m
       /\ sockets[a] # NoSock /\ sock[sockets[a]].isConnected
       /\ autoReplies[a] = <<>> /\ regexTriggers[a] = <<>>
       /\ regexTriggersPro[a] = <<>>
       /\ autoReplies[b] # <<>> /\ regexTriggers[b] # <<>>
       /\ regexTriggersPro[b] # <<>>
       /\ sockets[b] # NoSock /\ sock[sockets[b]].isConnected

\* C22: the create route sets the session's API key and nothing else: no
\* handle, no connect, no rule or file changes; called again with the key that
\* is registered it changes nothing at all.
C22_CreateOnlyKey ==
    [][\A s \in SessionIds, key \in ApiKeys :
         CreateSession(s, key) =>
            /\ sessions' = [sessions EXCEPT ![s] = key]
            /\ UNCHANGED <<sockets, sock, timers, connecting, startup, creds>>
            /\ UNCHANGED <<store, rules, msgs, reqs>>
            /\ sockets[s] = NoSock =>
                  ~(sockets'[s] # NoSock /\ sock'[sockets'[s]].isConnected)
            /\ sessions[s] = key => UNCHANGED vars]_vars

C22_Witness ==
    \E s \in SessionIds :
       /\ sessions[s] \in ApiKeys
       /\ s \notin startup
       /\ sockets[s] = NoSock
       /\ ConnectingCount(s) = 0
       /\ timers = {}

\* C23: formatNumber returns an address exactly when its argument has 10 to
\* 15 digits, the address is those digits followed by @s.whatsapp.net, and
\* formatNumber of that address is the same address.
RECURSIVE C23_DigitsOf(_)
C23_DigitsOf(str) ==
    IF str = <<>> THEN <<>>
    ELSE IF Head(str) \in Digits THEN <<Head(str)>> \o C23_DigitsOf(Tail(str))
    ELSE C23_DigitsOf(Tail(str))

C23_Normalized ==
    out.fn = "formatNumber" =>
       LET n == Cardinality({i \in DOMAIN arg : arg[i] \in Digits}) IN
       /\ out.val # NullJid <=> (n >= 10 /\ n <= 15)
       /\ out.val # NullJid =>
             /\ jidText(out.val) =
                   C23_DigitsOf(arg) \o
                      <<"@","s",".","w","h","a","t","s","a","p","p",".","n","e","t">>
             /\ formatNumber(jidText(out.val)) = out.val

C23_Witness ==
    /\ out.fn = "formatNumber"
    /\ out.val # NullJid
    /\ arg = jidText(out.val)
    /\ Len(out.val.user) = 15

\* C30: the cleaning of the auto-reply pass applied to a cleaned text returns
\* it unchanged.
C30_Idempotent ==
    out.fn = "cleanText" =>
       /\ cleanText(out.val) = out.val
       /\ \A i \in DOMAIN out.val :
             out.val[i] \in {Lower[j] : j \in DOMAIN Lower} \cup Digits

C30_Witness ==
    /\ out.fn = "cleanText"
    /\ arg = out.val
    /\ out.val = <<"h", "i", "1">>

\* C24: the open event makes the socket connected, clears its pairing code
\* and sets each of the three collections to the persisted one, or to the
\* empty one when there is no file; no message of the connection is handled
\* before the collections are loaded.
C24_Handled(s, i, j) ==
    \A n \in i..j :
       Mem(s)'[RuleFileOrder[n]] = LoadRules(s, RuleFileOrder[n])

C24_UpTo(k) ==
    IF loading'[k] = NotLoading THEN Len(RuleFileOrder)
    ELSE FileIndex(loading'[k].file) - 1

C24_OpenLoads ==
    [][\A k \in SockIds, s \in AllSessions :
         /\ (sock[k].sessionId = s /\ OpenBegin(k)) =>
               /\ sock'[k].isConnected
               /\ sock'[k].lastQR = 0
               /\ C24_Handled(s, 1, C24_UpTo(k))
         /\ (loading[k] # NotLoading /\ loading[k].sessionId = s
               /\ OpenRead(k, TRUE)) =>
               C24_Handled(s, FileIndex(loading[k].file), C24_UpTo(k))
         /\ (\E from \in Senders, text \in InboundTexts : OnMessage(k, from, text))
               => loading[k] = NotLoading]_vars

\* C29: when a read of the open branch fails the process goes on and the
\* three collections of the session are empty.
C29_EmptyOnFailure ==
    [][\A k \in SockIds, s \in AllSessions :
         (loading[k] # NotLoading /\ loading[k].sessionId = s
            /\ OpenRead(k, FALSE)) =>
            \A f \in RuleFiles : Mem(s)'[f] = <<>>]_vars

\* C25: a pairing code issued on a socket is stored on it in place of the one
\* before; a socket that is connected has none; and the qr route answers with
\* a pairing code only when it is the one stored on the session's registered
\* socket, which is still pairing.
C25_Current(s, r) ==
    /\ r.sk # NoSock
    /\ r.sk = sockets[s]
    /\ sock[r.sk].conn = "live"
    /\ ~sock[r.sk].isConnected

C25_LatestOfCurrent ==
    [][/\ \A k \in SockIds :
            /\ OnQr(k) => sock'[k].lastQR = sock[k].lastQR + 1
            /\ sock'[k].isConnected => sock'[k].lastQR = 0
       /\ \A s \in SessionIds :
            (QrPoll(s) /\ PolledQR(qrReq[s]) > 0) => C25_Current(s, qrReq[s])]_vars

\* C26: the generic pass invokes the callback of the winning trigger once, with
\* the first match of the winner's pattern in the text as keyword and the
\* winner's name and pattern, and hands the callback's response (a string as
\* it is, anything else serialized) to the send addressed to the sender.
C26_Winner(t) == bestMatch(matchedTriggers(regexTriggers[t.sessionId], t.text))

C26_InGeneric(t) == t.pc \in {"regexCallback", "regexSend"}

C26_CallsBefore(t) == IF t.pc \in {"idle", "done", "failed"} THEN 0 ELSE t.calls

C26_CallbackOnce ==
    [][\A m \in MsgIds :
         LET t == tasks[m] IN
         \A u \in {tasks'[m]} :
            /\ (u.pc = "regexCallback" /\ t.pc # "regexCallback") =>
                  /\ u.calls = C26_CallsBefore(t) + 1
                  /\ u.trig = C26_Winner(u)
                  /\ u.last.op = "callback"
                  /\ u.last.url = u.trig.callback_url
                  /\ u.last.payload =
                        [keyword |-> firstMatch(u.trig.regex, u.text),
                         name |-> u.trig.name, pattern |-> u.trig.regex]
            /\ (C26_InGeneric(t) /\ u # t) =>
                  /\ u.pc \in {"regexSend", "done", "failed"}
                  /\ u.pc = "regexSend" => u.calls = t.calls
            /\ t.pc = "regexCallback" =>
                  \A res \in Responses :
                     (res.ok /\ CallbackReturns(m, res)) =>
                        u.last = [op |-> "send", tier |-> "regex", to |-> t.from,
                                  text |-> replyText(res)]]_vars

C26_Witness ==
    \E m \in MsgIds :
       /\ tasks[m].pc = "regexSend"
       /\ ~tasks[m].fb
       /\ tasks[m].trig = TrigB
       /\ tasks[m].text = <<" ","H","i","!">>
       /\ tasks[m].last.text = "{\"a\":1}"

\* C27: a trigger whose pattern does not compile is skipped and nothing else:
\* a message is dispatched as it would be over the collections without the
\* uncompilable triggers, in the pro pass and in the generic pass, so that a
\* later trigger or a later tier answers it.
C27_Compilable(triggers) == SelectSeq(triggers, LAMBDA tr : Compiles(tr.regex))

C27_Skipped ==
    [][\A k \in SockIds, from \in Senders, text \in InboundTexts :
         OnMessage(k, from, text) =>
            LET s == sock[k].sessionId
                pro == C27_Compilable(regexTriggersPro[s])
                gen == matchedTriggers(C27_Compilable(regexTriggers[s]), text)
                i == ProScan(pro, from, text, 1)
            IN \A u \in {tasks'[arrived + 1]} :
                  IF i # 0
                  THEN u.pc = "proCallback" /\ u.trig = pro[i]
                  ELSE IF AutoScan(autoReplies[s], text) # 0
                  THEN u.pc = "autoDelay"
                  ELSE IF gen # <<>>
                  THEN u.pc = "regexCallback" /\ u.trig = bestMatch(gen)
                  ELSE u = DoneTask]_vars

\* C27 witness: behind an uncompilable pro trigger a later pro trigger
\* answers one message, and behind an uncompilable generic trigger a later
\* generic trigger answers another
C27_Witness ==
    \E m \in MsgIds, n \in MsgIds :
       /\ tasks[m].pc = "proCallback"
       /\ regexTriggersPro[tasks[m].sessionId] = <<ProBad, ProA, ProB>>
       /\ regexTriggers[tasks[m].sessionId] = <<TrigBad, TrigA, TrigB, TrigC>>
       /\ tasks[m].trig = ProA
       /\ tasks[n].pc = "regexCallback"
       /\ tasks[n].trig = TrigB
       /\ tasks[n].calls = 1

\* C28: a message that no allow-listed pro trigger, no auto-reply rule and no
\* generic trigger matches, and a message without text, ends the handler at
\* once: no callback is invoked and nothing is sent; and a run that is at a
\* callback or a send, or has made one, is one of a message that a rule matches.
C28_Matches(s, from, text) ==
    \/ \E i \in 1..Len(regexTriggersPro[s]) : ProHit(regexTriggersPro[s][i], from, text)
    \/ \E i \in 1..Len(autoReplies[s]) : AutoHit(autoReplies[s][i], text)
    \/ \E i \in 1..Len(regexTriggers[s]) : RegexHit(regexTriggers[s][i], text)

C28_HasText(msg) ==
    \/ msg.conversation \notin {Absent, <<>>}
    \/ msg.extendedText \notin {Absent, <<>>}

C28_NoAction ==
    [][/\ \A k \in SockIds, from \in Senders, msg \in UpsertMessages :
            (OnUpsert(k, from, msg) /\ ~C28_HasText(msg))
               => tasks'[arrived + 1] = DoneTask
       /\ \A k \in SockIds, from \in Senders,
             text \in InboundTexts \cup {messageText(msg) : msg \in UpsertMessages} :
            (OnMessage(k, from, text) /\ ~C28_Matches(sock[k].sessionId, from, text))
               => tasks'[arrived + 1] = DoneTask
       /\ \A m \in MsgIds :
            tasks'[m].pc \notin {"idle", "done", "failed"}
               => C28_Matches(tasks'[m].sessionId, tasks'[m].from, tasks'[m].text)]_vars

\* C28 witness: two messages, each without text or with a text that nothing
\* matches, were consumed while the session has rules of all three kinds
C28_Witness ==
    /\ arrived = 2
    /\ \A m \in MsgIds : tasks[m] = DoneTask
    /\ \A s \in SessionIds :
          /\ autoReplies[s] # <<>>
          /\ regexTriggers[s] # <<>>
          /\ regexTriggersPro[s] # <<>>

\* C31: the rule collections of a session survive the loss of its
\* credentials: with no rule route called, an open event, also the one after
\* a logged-out close and a new pairing, leaves the collections used for
\* matching as they were.
C31_RulesSurvive ==
    [][\A k \in SockIds : OnOpen(k) => rules' = rules]_vars

\* C32: a handle that is not the one registered for its session, because a
\* later start replaced it or a delete removed it, has no further effect:
\* its close event sets no reconnect timer, its open event leaves the rule
\* collections alone, and a message it delivers is not dispatched.
C32_Stale(k) == sockets[sock[k].sessionId] # k

C32_StaleInert ==
    [][\A k \in SockIds :
         C32_Stale(k) =>
            /\ \A loggedOut \in BOOLEAN : OnClose(k, loggedOut) => timers' = timers
            /\ OnOpen(k) => rules' = rules
            /\ \A from \in Senders, text \in InboundTexts :
                  OnMessage(k, from, text) => tasks'[arrived + 1] = DoneTask]_vars

\* C33: at any time at most one reconnect timer is pending for a session.
C33_TimersOf(s) == {k \in timers : sock[k].sessionId = s}

C33_OneTimer ==
    \A s \in SessionIds : Cardinality(C33_TimersOf(s)) <= 1

\* C34: every send, by the sendText route after its delay and by the handler
\* after the auto-reply delay or the callback, is issued on a handle that is
\* connected and is the registered handle of its session at that moment.
C34_Usable(s, k) ==
    /\ k # NoSock
    /\ sock[k].isConnected
    /\ sockets[s] = k

C34_SendOnUsable ==
    [][/\ \A s \in SessionIds :
            SendTextDelayElapsed(s) => C34_Usable(s, sendReq[s].sk)
       /\ \A m \in MsgIds :
            (DelayElapsed(m) \/ \E res \in Responses : CallbackReturns(m, res))
               => C34_Usable(tasks[m].sessionId, tasks[m].sk)]_vars

\* C35: a pairing code that the qr route returns belongs to a connection that
\* has not closed and has not been replaced: the handle the request polls is
\* live, still pairing, and the registered handle of the session.
C35_Returned(s) == QrPoll(s) /\ PolledQR(qrReq[s]) > 0

C35_Closed(r) == r.sk = NoSock \/ sock[r.sk].conn # "live"

C35_Replaced(s, r) == r.sk # NoSock /\ sockets[s] # r.sk

C35_NoStaleArtifact ==
    [][\A s \in SessionIds :
         C35_Returned(s) =>
            /\ ~C35_Closed(qrReq[s])
            /\ ~C35_Replaced(s, qrReq[s])
            /\ ~PolledConnected(qrReq[s])]_vars

\* C36: a send that fails inside the handler is contained: the run does not
\* end by a rejection that nobody catches, and in the pro pass it does not
\* lead to the callback of a later pro trigger for the same message.
C36_Escapes(t) == t.pc = "failed"

C36_NextProCallback(t) == t.pc = "proCallback"

C36_SendFailureContained ==
    [][\A m \in MsgIds :
         SendReturns(m, FALSE) =>
            /\ ~C36_Escapes(tasks'[m])
            /\ ~C36_NextProCallback(tasks'[m])]_vars

\* C37: a caller who was never given the key of a session cannot make a
\* session-scoped operation on it succeed: no handler of a send, rule or
\* delete route runs for a call made with such a caller's key.
C37_HandlerRuns(s, key) ==
    \/ DeleteSession(s, key)
    \/ \E to \in Recipients : SendText(s, key, to)
    \/ \E replies \in AutoReplyInputs, saveToAuth \in BOOLEAN :
          SetAutoReplies(s, key, replies, saveToAuth)
    \/ \E triggers \in RegexTriggerInputs : SetRegexTriggers(s, key, triggers)
    \/ \E triggers \in ProInputs : SetRegexTriggersPro(s, key, triggers)

C37_OutsiderRejected ==
    [][\A s \in SessionIds, key \in OutsiderKeys : ~C37_HandlerRuns(s, key)]_vars

\* C38: when the write of a rule file fails during a bulk replace (the
\* directory auth/<s> is not there), the collection in memory stays as it was,
\* for each of the three routes.
C38_WriteFails(s) == ~authDir[s]

C38_MemoryKept ==
    [][\A s \in SessionIds, key \in ApiKeys :
         C38_WriteFails(s) =>
            /\ \A replies \in AutoReplyInputs :
                  SetAutoReplies(s, key, replies, TRUE) => autoReplies' = autoReplies
            /\ \A triggers \in RegexTriggerInputs :
                  SetRegexTriggers(s, key, triggers) => regexTriggers' = regexTriggers
            /\ \A triggers \in ProInputs :
                  SetRegexTriggersPro(s, key, triggers)
                     => regexTriggersPro' = regexTriggersPro]_vars

\* C39: a DELETE call that passed the middleware ends with the session out of
\* the key registry and the socket registry and with its persisted
\* credentials erased, also when the logout of the handle fails.
C39_Removed(s) ==
    /\ sessions[s] = NoKey
    /\ sockets[s] = NoSock
    /\ ~creds[s]
    /\ ~authDir[s]

C39_DeleteAlwaysRemoves ==
    [][\A s \in SessionIds, key \in ApiKeys :
         (DeleteSession(s, key) \/ DeleteSessionLogoutFails(s, key))
            => \A t \in {s} : C39_Removed(t)']_vars

\* C40: every text message of a delivery that is not the session's own is
\* dispatched: the handler run that a delivery of that message alone starts
\* is started for it, also for the second message of a delivery of two.
C40_Dispatched(k, msg, t) ==
    t = ProPhase(NewTask(k, msg.from, msg.text))

C40_EveryMessageDispatched ==
    [][\A k \in SockIds, messages \in Deliveries :
         OnDelivery(k, messages) =>
            \A i \in 1..Len(messages) :
               ~messages[i].fromMe =>
                  C40_Dispatched(k, messages[i], tasks'[arrived + i])]_vars

====
